---- MODULE Spec2Model ----
(***************************************************************************)
(* Script Slots (Foundry VTT module): a model of the five variants of the  *)
(* module found in the repository.                                         *)
(*                                                                         *)
(*   MIN  minimal variant              src/script-slots.js      1 ..  125  *)
(*   RUN  "RUN" messages               src/script-slots.js    127 ..  614  *)
(*   OP   "op: run" messages           src/script-slots.js    616 .. 1084  *)
(*   SSR  "SCRIPT_SLOTS_RUN" messages  src/unnamed/part_000     1 ..  511  *)
(*   RS   "RUN_SLOT" messages          src/unnamed/part_000   513 ..  946  *)
(*                                                                         *)
(* One client is modelled per user; a client is named by its user.  The    *)
(* world settings (the slot collection and the two policy flags) are one   *)
(* shared store; the module socket is a set of deliveries in flight.       *)
(***************************************************************************)
EXTENDS Integers, Sequences, FiniteSets, TLC

VARIABLES
    variant,        \* which variant of the module the world runs
    online,         \* the connected clients (each named by its user)
    scripts,        \* the persisted slot collection, in stored order
    requireOwner,   \* world setting requireActorOwner
    requireToken,   \* world setting requireTokenOnScene / requireControlledToken
    socket,         \* deliveries in flight: [id, to, payload]
    emitted,        \* number of socket.emit calls so far (message ids)
    execCount,      \* per message id: invocations of a script body so far
    hung,           \* the clients on which an invocation awaits forever
    selected,       \* ScriptSlotsConfig._selected of the RUN variant
    stale,          \* clients whose in-memory collection differs from the
                    \* persisted one: [client, list]
    pending,        \* edit dialogs left open and writes of the collection
                    \* on their way to the server
    last            \* what the last handler did (observation only)

vars == <<variant, online, scripts, requireOwner, requireToken, socket,
          emitted, execCount, hung, selected, stale, pending, last>>

-----------------------------------------------------------------------------
(* Bounds of the model *)

\* socket.emit calls per behaviour
MaxMsgs == 1
\* slots in the collection of the config-UI specification
MaxSlots == 2
\* records in an imported file
MaxImport == 2

-----------------------------------------------------------------------------
(* JavaScript values *)

T == "true"
F == "false"
U == "undefined"
NULL == "null"

\* !!x of a stored flag
Truthy(x) == x = T

Bool(b) == IF b THEN T ELSE F

-----------------------------------------------------------------------------
(* Strings: the names the model uses, with trim() and toLowerCase() *)

NameStrings == {"", " ", "a", "A", " a", "b", "New Slot"}

Trim(s) ==
    CASE s = " "  -> ""
      [] s = " a" -> "a"
      [] OTHER    -> s

ToLowerCase(s) ==
    CASE s = "A"        -> "a"
      [] s = "New Slot" -> "new slot"
      [] OTHER          -> s

-----------------------------------------------------------------------------
(* The domain the scripts act on: users, actors, tokens of the viewed scene *)

Variants == {"MIN", "RUN", "OP", "SSR", "RS"}

Users == {"gm", "gm2", "p1", "p2"}

\* game.user.isGM of the client named by user u
IsGM(u) == u \in {"gm", "gm2"}

Actors == {"a1", "a2"}

\* an actorId that names no actor, and the absence of an actorId
UnknownActor == "zz"
NoId == "noId"

\* game.users.get(id) ?? null
UsersGet(id) == IF id \in Users THEN id ELSE NULL

\* game.actors.get(id) ?? null
ActorsGet(id) == IF id \in Actors THEN id ELSE NULL

\* actor.testUserPermission(user, OWNER): a GM owns everything, p1 owns a1,
\* p2 owns nothing
TestUserPermission(actor, user) == IsGM(user) \/ (user = "p1" /\ actor = "a1")

\* canvas.tokens.placeables.some(t => t.actor?.id === actor): a1 has a token
HasTokenOnScene(actor) == actor = "a1"

\* user.character: p1's assigned character is a1
Character(user) == IF user = "p1" THEN "a1" ELSE NULL

\* canvas.tokens.controlled?.[0]?.actor on the executing client: none selected
ControlledActor == NULL

-----------------------------------------------------------------------------
(* Script source texts and what compiling and calling them does *)

C_EMPTY == ""
C_BODY == "return 42;"
C_THROW == "throw new Error('boom');"
C_TEMPLATE == "async function run(ctx) { }"
C_RUNTHROW == "async function run(ctx) { throw new Error('boom'); }"
C_SYNTAX == "return (;"
C_RUN42 == "function run(ctx) { return 42; }"
C_COMMENT == "/* function run(ctx) */ return 42;"
C_NESTED == "if (ctx) { function run(ctx) { return 42; } }"
C_HANG == "await new Promise(() => {});"

\* /async\s+function\s+run\s*\(\s*ctx\s*\)/ or /function\s+run\s*\(\s*ctx\s*\)/
MatchesRunCtxDecl(code) ==
    code \in {C_TEMPLATE, C_RUNTHROW, C_RUN42, C_COMMENT, C_NESTED}

\* /\basync\s+function\s+run\s*\(/ or /\bfunction\s+run\s*\(/
MatchesRunDecl(code) ==
    code \in {C_TEMPLATE, C_RUNTHROW, C_RUN42, C_COMMENT, C_NESTED}

\* the text is a valid sequence of statements of a function body
ParsesAsBody(code) == code # C_SYNTAX

\* the same for the body of a function that is not async: await is an error
ParsesAsSyncBody(code) == ParsesAsBody(code) /\ code # C_HANG

\* the text declares a function named run at its top level
DeclaresRun(code) == code \in {C_TEMPLATE, C_RUNTHROW, C_RUN42}

\* the result of an engine step: did author code run, how did it end
Returned(v) == [ran |-> TRUE, status |-> "ok", err |-> "none", value |-> v]
\* the body was entered and its promise never settles
Pending == [ran |-> TRUE, status |-> "pending", err |-> "none", value |-> U]
Thrown(e, r) == [ran |-> r, status |-> "throw", err |-> e, value |-> U]

\* running the text as the statements of a function body
EvalBody(code) ==
    CASE code \in {C_BODY, C_COMMENT} -> Returned("42")
      [] code = C_THROW -> Thrown("RuntimeError", TRUE)
      [] code = C_HANG  -> Pending
      [] OTHER          -> Returned(U)

\* calling the function run the text declares
CallRun(code) ==
    CASE code = C_RUNTHROW -> Thrown("RuntimeError", TRUE)
      [] code = C_RUN42    -> Returned("42")
      [] OTHER             -> Returned(U)

\* RUN variant: new Function(...) and runner(ctx)
RunnerRUN(code) ==
    IF Trim(code) = "" THEN Thrown("EmptyCode", FALSE)
    ELSE IF MatchesRunCtxDecl(code)
    THEN \* "let run; <code>": a top-level function run redeclares the let
         IF ~ParsesAsBody(code) \/ DeclaresRun(code)
         THEN Thrown("CompileError", FALSE)
         ELSE IF EvalBody(code).status = "throw" THEN EvalBody(code)
         ELSE IF EvalBody(code).value # U THEN EvalBody(code)
         ELSE Thrown("MissingEntryPoint", TRUE)
    ELSE IF ~ParsesAsBody(code) THEN Thrown("CompileError", FALSE)
    ELSE EvalBody(code)

\* OP variant: compileRunner(code)(ctx); the factory runs the text and then
\* "return run": a text that returned a value of its own fails the typeof
\* test, one that binds no run at its top level throws a ReferenceError
CompileRunner(code) ==
    IF MatchesRunDecl(code)
    THEN IF ~ParsesAsBody(code) THEN Thrown("CompileError", FALSE)
         ELSE IF EvalBody(code).status = "throw" THEN EvalBody(code)
         ELSE IF EvalBody(code).value # U THEN Thrown("MissingEntryPoint", TRUE)
         ELSE IF ~DeclaresRun(code) THEN Thrown("ReferenceError", TRUE)
         ELSE CallRun(code)
    ELSE IF ~ParsesAsBody(code) THEN Thrown("CompileError", FALSE)
    ELSE EvalBody(code)

\* SSR variant: compileScript(code), runnerFactory(...), runFn(ctx)
CompileScript(code) ==
    IF ~ParsesAsSyncBody(code) THEN Thrown("CompileError", FALSE)
    ELSE IF EvalBody(code).status = "throw" THEN Thrown("InitError", TRUE)
    ELSE IF EvalBody(code).value # U THEN Thrown("MissingEntryPoint", TRUE)
    ELSE IF ~DeclaresRun(code) THEN Thrown("InitError", code # C_EMPTY)
    ELSE CallRun(code)

\* RS variant: compileSlot(code)(ctx), the text is always the body of run
CompileSlot(code) ==
    IF ~ParsesAsBody(code) THEN Thrown("CompileError", FALSE)
    ELSE EvalBody(code)

\* MIN variant: new Function("ctx", code)(ctx)
RunnerMIN(code) ==
    IF ~ParsesAsSyncBody(code) THEN Thrown("CompileError", FALSE)
    ELSE EvalBody(code)

-----------------------------------------------------------------------------
(* Slot records and the stored collection *)

\* a stored slot; a field the variant does not write is undefined (U)
Slot(name, enabled, code, playersCanRun) ==
    [name |-> name, enabled |-> enabled, code |-> code,
     playersCanRun |-> playersCanRun]

\* list.find / list.findIndex: hits[i] tells whether element i passes the
\* test; the index of the first that does, 0 when there is none
FirstIndex(hits) ==
    IF \E i \in 1..Len(hits) : hits[i]
    THEN CHOOSE i \in 1..Len(hits) : hits[i] /\ \A j \in 1..(i - 1) : ~hits[j]
    ELSE 0

\* list.filter: keep[i] tells whether element i passes the test
RECURSIVE Filter(_, _)
Filter(list, keep) ==
    IF list = <<>> THEN <<>>
    ELSE (IF Head(keep) THEN <<Head(list)>> ELSE <<>>)
         \o Filter(Tail(list), Tail(keep))

\* obj[key] of an object map kept as its entries in insertion order
KeyIndex(obj, key) ==
    FirstIndex([i \in 1..Len(obj) |-> obj[i].name = key])

\* obj[key] = entry: in place when the key exists, appended otherwise
ObjSet(obj, key, entry) ==
    IF KeyIndex(obj, key) = 0 THEN Append(obj, entry)
    ELSE [obj EXCEPT ![KeyIndex(obj, key)] = entry]

\* delete obj[key]
ObjDelete(obj, key) ==
    Filter(obj, [i \in 1..Len(obj) |-> obj[i].name # key])

\* RUN variant: findScriptByName(name), as an index into the collection
FindScriptByName(list, name) ==
    FirstIndex([i \in 1..Len(list) |->
                   ToLowerCase(Trim(list[i].name)) = ToLowerCase(Trim(name))])

\* OP variant: normalizeSlotName and findSlot(slots, name), as an index
NormalizeSlotName(name) == Trim(name)

FindSlot(list, name) ==
    FirstIndex([i \in 1..Len(list) |->
                   NormalizeSlotName(list[i].name) = NormalizeSlotName(name)])

-----------------------------------------------------------------------------
(* The execution engines.  A request is [name, actorId, userId]; the result *)
(* says whether author code ran, how the engine function ended, and which   *)
(* notification the engine itself raised.                                   *)

Request(name, actorId, userId) ==
    [name |-> name, actorId |-> actorId, userId |-> userId]

Outcome(ran, status, err, value, notify) ==
    [ran |-> ran, status |-> status, err |-> err, value |-> value,
     notify |-> notify]

\* the function returned value v without running a script
Done(v) == Outcome(FALSE, "ok", "none", v, "none")

\* throw new Error(...) before any script ran
Deny(e) == Outcome(FALSE, "throw", e, U, "none")

\* return notify(level, ...) before, or instead of, running a script
Notified(level, e, r) == Outcome(r, "ok", e, U, level)

\* the engine hands on what the compiled script did
FromScript(r) == Outcome(r.ran, r.status, r.err, r.value, "none")

\* args?.actorId resolved through game.actors
ResolveActor(actorId) == IF actorId = NoId THEN NULL ELSE ActorsGet(actorId)

\* RUN variant: executeSlotAsGM({name, args, requestedByUserId})
ExecuteSlotAsGM(req) ==
    LET i == FindScriptByName(scripts, req.name)
        requestedBy == UsersGet(req.userId)
        actor == ResolveActor(req.actorId)
        token == IF actor # NULL /\ HasTokenOnScene(actor) THEN actor ELSE NULL
    IN  IF i = 0 THEN Deny("NotFound")
        ELSE IF requireOwner /\ requestedBy = NULL THEN Deny("RequesterNotFound")
        ELSE IF requireOwner /\ actor = NULL THEN Deny("MissingTarget")
        ELSE IF requireOwner /\ ~TestUserPermission(actor, requestedBy)
             THEN Deny("NotOwner")
        ELSE IF requireToken /\ actor = NULL THEN Deny("MissingTarget")
        ELSE IF requireToken /\ token = NULL THEN Deny("NotPresent")
        ELSE FromScript(RunnerRUN(scripts[i].code))

\* OP variant: the body of validateRequest, given what its two calls of
\* game.settings.get return; "none" when the request passes
ValidateRequestUnder(owner, token, req) ==
    IF ~owner /\ ~token THEN "none"
    ELSE IF req.actorId = NoId THEN "MissingTarget"
    ELSE IF ActorsGet(req.actorId) = NULL THEN "MissingTarget"
    ELSE IF UsersGet(req.userId) = NULL THEN "RequesterNotFound"
    ELSE IF owner /\ ~TestUserPermission(req.actorId, req.userId)
         THEN "NotOwner"
    ELSE IF token /\ ~HasTokenOnScene(req.actorId) THEN "NotPresent"
    ELSE "none"

\* a validateRequest that keeps the values the settings were registered with
ValidateRequestCached(req) == ValidateRequestUnder(TRUE, FALSE, req)

\* OP variant: validateRequest({args, requestedByUserId}): both settings are
\* read from the store at every call
ValidateRequest(req) == ValidateRequestUnder(requireOwner, requireToken, req)

\* the tokens on the active scene: t1 is the token of the actor a1, t9 the
\* token of another actor of the world, which no request here names
SceneTokens == {"t1", "t9"}
NoTokenId == "noTokenId"
TokenActor(t) == IF t = "t1" THEN "a1" ELSE "a9"

\* canvas.tokens.get(tokenId) ?? null
TokensGet(tokenId) == IF tokenId \in SceneTokens THEN tokenId ELSE NULL

\* canvas.tokens.placeables.find(t => t.actor?.id === actor.id) ?? null
FindTokenOf(actor) ==
    IF \E t \in SceneTokens : TokenActor(t) = actor
    THEN CHOOSE t \in SceneTokens : TokenActor(t) = actor
    ELSE NULL

\* OP variant: buildCtx({slotName, args, requestedByUserId}), args carrying
\* actorId and tokenId
BuildCtx_OP(slotName, actorId, tokenId, requestedByUserId) ==
    LET requestedBy == UsersGet(requestedByUserId)
        actor == IF actorId # NoId THEN ActorsGet(actorId) ELSE NULL
        given == IF tokenId # NoTokenId THEN TokensGet(tokenId) ELSE NULL
        token == IF given = NULL /\ actor # NULL THEN FindTokenOf(actor)
                 ELSE given
    IN  [slotName |-> slotName, requestedBy |-> requestedBy,
         user |-> requestedBy, actor |-> actor, token |-> token]

\* an engine that compiles the slot before it validates the request
RunSlotAsGM_OP_CompileFirst(req) ==
    LET i == FindSlot(scripts, req.name)
    IN  IF i = 0 THEN Deny("NotFound")
        ELSE IF ~Truthy(scripts[i].enabled) THEN Deny("SlotDisabled")
        ELSE IF CompileRunner(scripts[i].code).err = "CompileError"
             THEN FromScript(CompileRunner(scripts[i].code))
        ELSE IF ValidateRequest(req) # "none" THEN Deny(ValidateRequest(req))
        ELSE FromScript(CompileRunner(scripts[i].code))

\* OP variant: runSlotAsGM({name, args, requestedByUserId})
RunSlotAsGM_OP(req) ==
    LET i == FindSlot(scripts, req.name)
    IN  IF i = 0 THEN Deny("NotFound")
        ELSE IF ~Truthy(scripts[i].enabled) THEN Deny("SlotDisabled")
        ELSE IF ValidateRequest(req) # "none" THEN Deny(ValidateRequest(req))
        ELSE FromScript(CompileRunner(scripts[i].code))

\* SSR variant: normalizeName and getRequesterActor({actorId, user})
NormalizeName(name) == Trim(name)

GetRequesterActor(actorId, user) ==
    IF actorId # NoId THEN ActorsGet(actorId)
    ELSE IF Character(user) # NULL THEN Character(user)
    ELSE ControlledActor

\* an executeEntryAsGM that tests the token rule before the ownership rule
ExecuteEntryAsGM_TokenFirst(c, i, req) ==
    LET requester == UsersGet(req.userId)
        actor == GetRequesterActor(req.actorId, requester)
        r == CompileScript(scripts[i].code)
    IN  IF ~IsGM(c) THEN Done(U)
        ELSE IF i = 0 THEN Notified("warn", "NotFound", FALSE)
        ELSE IF ~Truthy(scripts[i].enabled)
             THEN Notified("warn", "SlotDisabled", FALSE)
        ELSE IF requester = NULL
             THEN Notified("warn", "RequesterNotFound", FALSE)
        ELSE IF ~Truthy(scripts[i].playersCanRun) /\ ~IsGM(requester)
             THEN Notified("warn", "NotPermitted", FALSE)
        ELSE IF actor = NULL THEN Notified("error", "MissingTarget", FALSE)
        ELSE IF requireToken /\ ~HasTokenOnScene(actor)
             THEN Notified("warn", "NotPresent", FALSE)
        ELSE IF requireOwner /\ ~IsGM(requester)
                /\ ~TestUserPermission(actor, requester)
             THEN Notified("warn", "NotOwner", FALSE)
        ELSE IF r.status = "throw" THEN Notified("error", r.err, r.ran)
        ELSE Outcome(TRUE, "ok", "none", U, "none")

\* SSR variant: executeEntryAsGM({name, entry, args, userId}) on client c,
\* the entry given as its index in the collection (0: no such entry)
ExecuteEntryAsGM(c, i, req) ==
    LET requester == UsersGet(req.userId)
        actor == GetRequesterActor(req.actorId, requester)
        r == CompileScript(scripts[i].code)
    IN  IF ~IsGM(c) THEN Done(U)
        ELSE IF i = 0 THEN Notified("warn", "NotFound", FALSE)
        ELSE IF ~Truthy(scripts[i].enabled)
             THEN Notified("warn", "SlotDisabled", FALSE)
        ELSE IF requester = NULL
             THEN Notified("warn", "RequesterNotFound", FALSE)
        ELSE IF ~Truthy(scripts[i].playersCanRun) /\ ~IsGM(requester)
             THEN Notified("warn", "NotPermitted", FALSE)
        ELSE IF actor = NULL THEN Notified("error", "MissingTarget", FALSE)
        ELSE IF requireOwner /\ ~IsGM(requester)
                /\ ~TestUserPermission(actor, requester)
             THEN Notified("warn", "NotOwner", FALSE)
        ELSE IF requireToken /\ ~HasTokenOnScene(actor)
             THEN Notified("warn", "NotPresent", FALSE)
        ELSE IF r.status = "throw" THEN Notified("error", r.err, r.ran)
        ELSE Outcome(TRUE, "ok", "none", U, "none")

\* SSR variant: executeSlotAsGM({slotName, args, userId}) on client c
ExecuteSlotAsGM_SSR(c, req) ==
    ExecuteEntryAsGM(c, KeyIndex(scripts, NormalizeName(req.name)), req)

\* RS variant: userCanRequestActor(user, actor)
UserCanRequestActor(user, actor) ==
    IF actor = NULL THEN FALSE
    ELSE IF ~requireOwner THEN TRUE
    ELSE TestUserPermission(actor, user)

\* RS variant: actorHasTokenOnScene(actor)
ActorHasTokenOnScene(actor) ==
    IF actor = NULL THEN FALSE ELSE HasTokenOnScene(actor)

\* RS variant: buildCtx({actorId, requestedBy}), the object handed to the
\* script; a token is named by its actor
BuildCtx(actorId, requestedBy) ==
    LET actor == IF actorId # NoId THEN ActorsGet(actorId) ELSE NULL
        token == IF actor # NULL /\ HasTokenOnScene(actor) THEN actor ELSE NULL
    IN  [actorId |-> actor,
         actor |-> actor,
         token |-> token,
         requestedBy |-> IF requestedBy = U THEN NULL ELSE requestedBy,
         userId |-> IF requestedBy = U THEN NULL ELSE requestedBy,
         user |-> IF requestedBy = U THEN NULL ELSE UsersGet(requestedBy),
         game |-> "game", ui |-> "ui", foundry |-> "foundry",
         canvas |-> "canvas"]

\* RS variant: runSlotAsGM({name, actorId, requestedBy})
RunSlotAsGM_RS(req) ==
    LET i == KeyIndex(scripts, NormalizeName(req.name))
        actor == ResolveActor(req.actorId)
        user == UsersGet(req.userId)
    IN  IF i = 0 THEN Deny("NotFound")
        ELSE IF ~Truthy(scripts[i].enabled) THEN Deny("SlotDisabled")
        ELSE IF user # NULL /\ actor # NULL /\ ~UserCanRequestActor(user, actor)
             THEN Deny("NotOwner")
        ELSE IF requireToken /\ actor # NULL /\ ~ActorHasTokenOnScene(actor)
             THEN Deny("NotPresent")
        ELSE FromScript(CompileSlot(scripts[i].code))

\* MIN variant: slot.requireOwner, a field no handler of the variant writes
SlotRequireOwner(slot) == U

\* MIN variant: run(name, ctx) on client c
RunMIN(c, req) ==
    LET i == KeyIndex(scripts, req.name)
        actor == ActorsGet(req.actorId)
    IN  IF i = 0 THEN Notified("warn", "NotFound", FALSE)
        ELSE IF ~Truthy(scripts[i].enabled)
             THEN Notified("warn", "SlotDisabled", FALSE)
        ELSE IF ~IsGM(c) /\ Truthy(SlotRequireOwner(scripts[i]))
                /\ req.actorId # NoId
                /\ (actor = NULL \/ ~TestUserPermission(actor, c))
             THEN Done(U)
        ELSE FromScript(RunnerMIN(scripts[i].code))

-----------------------------------------------------------------------------
(* The module socket: payloads, the public run() and the socket listeners *)

\* a message on the module socket; a null payload has isNull set
Payload(type, op, name, actorId, userId) ==
    [isNull |-> FALSE, type |-> type, op |-> op, name |-> name,
     actorId |-> actorId, userId |-> userId]

NullPayload ==
    [isNull |-> TRUE, type |-> U, op |-> U, name |-> U, actorId |-> NoId,
     userId |-> U]

\* the request a listener destructures from a payload
RequestOf(payload) == Request(payload.name, payload.actorId, payload.userId)

\* what a call of the public run() did: how its promise settled, and the
\* payloads it handed to game.socket.emit
Call(out, emits) == [out |-> out, emits |-> emits]

\* RUN variant: normName
NormName(name) == Trim(name)

\* run() that executes on the caller's client whoever calls, publishing
\* nothing
ApiRun_RUN_Local(c, name, actorId) ==
    LET slotName == NormName(name)
    IN  IF slotName = "" THEN Call(Deny("MissingName"), <<>>)
        ELSE Call(ExecuteSlotAsGM(Request(slotName, actorId, c)), <<>>)

\* RUN variant: game.scriptSlots.run(name, args) on client c
ApiRun_RUN(c, name, actorId) ==
    LET slotName == NormName(name)
    IN  IF slotName = "" THEN Call(Deny("MissingName"), <<>>)
        ELSE IF IsGM(c)
        THEN Call(ExecuteSlotAsGM(Request(slotName, actorId, c)), <<>>)
        ELSE Call(Done(T), <<Payload("RUN", U, slotName, actorId, c)>>)

\* OP variant: game.scriptsSlots.run(name, args) on client c
ApiRun_OP(c, name, actorId) ==
    LET slotName == NormalizeSlotName(name)
    IN  IF slotName = "" THEN Call(Deny("MissingName"), <<>>)
        ELSE IF IsGM(c)
        THEN Call(RunSlotAsGM_OP(Request(slotName, actorId, c)), <<>>)
        ELSE Call(Done(T), <<Payload(U, "run", slotName, actorId, c)>>)

\* SSR variant: requestRun(slotName, args) on client c
RequestRun(c, slotName, actorId) ==
    LET name == NormalizeName(slotName)
    IN  IF name = "" THEN Call(Deny("MissingName"), <<>>)
        ELSE IF IsGM(c)
        THEN Call(ExecuteSlotAsGM_SSR(c, Request(name, actorId, c)), <<>>)
        ELSE Call(Done(U),
                  <<Payload("SCRIPT_SLOTS_RUN", U, name, actorId, c)>>)

\* RS variant: game.scriptsSlots.run(name, args) on client c
ApiRun_RS(c, name, actorId) ==
    IF IsGM(c) THEN Call(RunSlotAsGM_RS(Request(name, actorId, c)), <<>>)
    ELSE Call(Done(U), <<Payload("RUN_SLOT", U, name, actorId, c)>>)

\* MIN variant: game.scriptSlots.run(name, ctx) on client c
ApiRun_MIN(c, name, actorId) ==
    Call(RunMIN(c, Request(name, actorId, c)), <<>>)

\* game.scriptSlots.run / game.scriptsSlots.run of the variant in use
ApiRun(c, name, actorId) ==
    CASE variant = "RUN" -> ApiRun_RUN(c, name, actorId)
      [] variant = "OP"  -> ApiRun_OP(c, name, actorId)
      [] variant = "SSR" -> RequestRun(c, name, actorId)
      [] variant = "RS"  -> ApiRun_RS(c, name, actorId)
      [] OTHER           -> ApiRun_MIN(c, name, actorId)

\* catch (err) { ui.notifications.error(...) } around an engine call
Caught(out) ==
    IF out.status = "throw"
    THEN Outcome(out.ran, "ok", out.err, U, "error")
    ELSE Outcome(out.ran, out.status, out.err, U, out.notify)

\* a listener that lacks the test of game.user.isGM
OnSocket_RUN_NoGMCheck(c, payload) ==
    IF payload.isNull \/ payload.type # "RUN" THEN Done(U)
    ELSE Caught(ExecuteSlotAsGM(RequestOf(payload)))

\* RUN variant: the listener of registerSocket on client c
OnSocket_RUN(c, payload) ==
    IF payload.isNull \/ payload.type # "RUN" THEN Done(U)
    ELSE IF ~IsGM(c) THEN Done(U)
    ELSE Caught(ExecuteSlotAsGM(RequestOf(payload)))

\* OP variant: the listener registered at "ready" on client c
OnSocket_OP(c, payload) ==
    IF payload.isNull \/ payload.op # "run" THEN Done(U)
    ELSE IF ~IsGM(c) THEN Done(U)
    ELSE Caught(RunSlotAsGM_OP(RequestOf(payload)))

\* SSR variant: the listener registered at "ready" on client c
OnSocket_SSR(c, payload) ==
    IF payload.isNull \/ payload.type # "SCRIPT_SLOTS_RUN" THEN Done(U)
    ELSE ExecuteSlotAsGM_SSR(c, RequestOf(payload))

\* RS variant: the listener registered at "ready" on client c
OnSocket_RS(c, payload) ==
    IF ~IsGM(c) THEN Done(U)
    ELSE IF payload.isNull \/ payload.type # "RUN_SLOT" THEN Done(U)
    ELSE Caught(RunSlotAsGM_RS(RequestOf(payload)))

\* the listener of the variant in use; the MIN variant registers none
OnSocket(c, payload) ==
    CASE variant = "RUN" -> OnSocket_RUN(c, payload)
      [] variant = "OP"  -> OnSocket_OP(c, payload)
      [] variant = "SSR" -> OnSocket_SSR(c, payload)
      [] variant = "RS"  -> OnSocket_RS(c, payload)
      [] OTHER           -> Done(U)

\* an engine that saves the collection back after a request, every slot
\* marked enabled
SettingsAfterRunWriteBack(list) ==
    [i \in 1..Len(list) |-> [list[i] EXCEPT !.enabled = T]]

\* the slot collection after an engine ran: no run path calls
\* game.settings.set
SettingsAfterRun(list) == list

-----------------------------------------------------------------------------
(* Observation of the last step *)

\* op: the kind of step; client: where it ran; id: the message emitted or
\* received; req: the request handled; published: payloads handed to
\* socket.emit; malformed: the received payload fails the discriminator
\* test; wrote: the step changed the slot collection; out: how it ended
\* ui: for a config-UI handler, which one ran, whether it called
\* game.settings.set on the collection, and how many records of an import
\* file it left out
Obs(op, client, id, req, published, malformed, wrote, out, ui) ==
    [op |-> op, client |-> client, id |-> id, req |-> req,
     published |-> published, malformed |-> malformed, wrote |-> wrote,
     out |-> out, ui |-> ui]

NoRequest == Request(U, NoId, U)

UiNote(action, opened, issued, dropped, listed) ==
    [action |-> action, opened |-> opened, issued |-> issued,
     dropped |-> dropped, listed |-> listed]

NoUi == UiNote("none", FALSE, FALSE, 0, <<>>)

\* a settings step: nothing of the run path happened
UiObs(c) == Obs("ui", c, 0, NoRequest, 0, FALSE, FALSE, Done(U), NoUi)

\* the discriminator test of the variant's listener fails on the payload
Malformed(payload) ==
    \/ payload.isNull
    \/ variant \in {"RUN", "SSR", "RS"} /\ payload.type = U
    \/ variant = "OP" /\ payload.op = U

GMOnline(c) == c \in online /\ IsGM(c)

\* keys of the collection, in stored order
Keys(list) == {list[i].name : i \in 1..Len(list)}

-----------------------------------------------------------------------------
(* Initial state: the registered defaults of the world settings *)

\* one GM and two players, or two GMs and one player
OnlineConfigs == {{"gm", "p1", "p2"}, {"gm", "gm2", "p1"}}

Init ==
    /\ variant \in Variants
    /\ online \in OnlineConfigs
    /\ scripts = <<>>
    /\ requireOwner = TRUE
    /\ requireToken = FALSE
    /\ socket = {}
    /\ emitted = 0
    /\ execCount = [i \in 1..MaxMsgs |-> 0]
    /\ hung = {}
    /\ selected = NULL
    /\ stale = {}
    /\ pending = {}
    /\ last = Obs("init", NULL, 0, NoRequest, 0, FALSE, FALSE, Done(U), NoUi)

-----------------------------------------------------------------------------
(* The config UI: what every handler shares *)

\* the collection the read accessor returns on client c
Held(c) ==
    IF \E s \in stale : s.client = c
    THEN (CHOOSE s \in stale : s.client = c).list
    ELSE scripts

\* openConfig() on client c: whether the editor window opens
OpenConfig(c) ==
    CASE variant = "MIN" -> IsGM(c)
      [] variant = "RUN" -> TRUE
      [] variant = "OP"  -> IsGM(c)
      [] variant = "SSR" -> TRUE
      [] OTHER           -> TRUE

\* what a handler did with the collection it read: list is the collection
\* handed to game.settings.set when issued; inPlace is the value the
\* accessor's result has after the handler's assignments to it; dropped
\* counts the records of an import file left out; out is how the handler
\* ends and what it notifies, rejected the same when the write is refused
Handled(list, inPlace, issued, dropped, out, rejected) ==
    [list |-> list, inPlace |-> inPlace, issued |-> issued,
     dropped |-> dropped, out |-> out, rejected |-> rejected]

\* a handler that returns before touching anything
Returns(c, out) == Handled(Held(c), Held(c), FALSE, 0, out, out)

\* await game.settings.set(...) refused: the rejection leaves the handler
WriteRejected == Deny("WriteRejected")

\* an edit dialog left open on a client, or a write of the collection
\* issued there and not yet applied: a dialog keeps the name of its slot
\* and, in the SSR variant, the collection and the record its handler read;
\* shared tells that this collection is the very object the client holds
Pend(client, kind, name, list, entry, shared) ==
    [client |-> client, kind |-> kind, name |-> name, list |-> list,
     entry |-> entry, shared |-> shared]

\* the dialogs of client c whose collection is the object the client holds
SharedDialogs(c) ==
    {d \in pending : d.client = c /\ d.kind = "edit" /\ d.shared}

\* game.settings.get hands out either the value the client holds or a copy
\* of it; the two differ once a handler has assigned in place and its write
\* was refused or never issued, or while a dialog holds the value
AliasChoices(c, h) ==
    IF /\ h.inPlace # Held(c)
       /\ ~(h.issued /\ IsGM(c)) \/ SharedDialogs(c) # {}
    THEN BOOLEAN
    ELSE {FALSE}

\* what a handler of client c leaves of a dialog or write d: an assignment
\* in place to the object a dialog shares shows in the dialog, and an
\* accepted write replaces the object every client holds
Tracked(d, c, h, aliased, accepted) ==
    LET i == KeyIndex(h.inPlace, d.name)
    IN  IF d \in SharedDialogs(c) /\ aliased
        THEN [d EXCEPT !.list = h.inPlace,
                       !.entry = IF i # 0 THEN h.inPlace[i] ELSE d.entry,
                       !.shared = ~accepted]
        ELSE IF accepted THEN [d EXCEPT !.shared = FALSE]
        ELSE d

\* the end of a handler on client c: a world setting is written for a GM
\* only, and an accepted write refreshes the value every client holds;
\* closed are the dialogs the handler belongs to
UiCommitFrom(c, action, h, closed) ==
    \E aliased \in AliasChoices(c, h) :
    LET accepted == h.issued /\ IsGM(c)
        others == {x \in stale : x.client # c}
    IN  /\ scripts' = IF accepted THEN h.list ELSE scripts
        /\ stale' = IF accepted THEN {}
                    ELSE IF aliased
                    THEN others \cup {[client |-> c, list |-> h.inPlace]}
                    ELSE stale
        /\ pending' = {Tracked(d, c, h, aliased, accepted) :
                          d \in pending \ closed}
        /\ last' = Obs("ui", c, 0, NoRequest, 0, FALSE, scripts' # scripts,
                       IF h.issued /\ ~IsGM(c) THEN h.rejected ELSE h.out,
                       UiNote(action, TRUE, h.issued, h.dropped, <<>>))
        /\ UNCHANGED <<variant, online, hung, requireOwner, requireToken, socket,
                       emitted, execCount>>

\* the end of a handler that belongs to no dialog
UiCommit(c, action, h) == UiCommitFrom(c, action, h, {})

\* game.scriptSlots.openConfig() called on client c
OpenConfigCall(c) ==
    /\ c \in online
    /\ last' = Obs("ui", c, 0, NoRequest, 0, FALSE, FALSE,
                   IF variant = "OP" /\ ~IsGM(c)
                   THEN Notified("warn", "GMOnly", FALSE) ELSE Done(U),
                   UiNote("openConfig", OpenConfig(c), FALSE, 0, <<>>))
    /\ UNCHANGED <<variant, online, hung, scripts, requireOwner, requireToken,
                   socket, emitted, execCount, selected, stale, pending>>

-----------------------------------------------------------------------------
(* Import files *)

\* a JSON number where a string is expected
NUM5 == "#5"

\* one record of a file: an object with the fields it carries (U: absent),
\* null, or a number
FileRecord(kind, name, enabled, code, playersCanRun) ==
    [kind |-> kind, name |-> name, enabled |-> enabled, code |-> code,
     playersCanRun |-> playersCanRun]

\* a file: text that is not JSON, JSON that is neither array nor object, or
\* the records of an array (the entries of an object, keyed by name)
File(kind, records) == [kind |-> kind, records |-> records]

\* s?.f and s.f of a record s that is not null
FieldOf(rec, f) == IF rec.kind = "object" THEN rec[f] ELSE U

\* String(v ?? "")
StringOrEmpty(v) ==
    CASE v = U    -> ""
      [] v = NUM5 -> "5"
      [] OTHER    -> v

\* !!v of a field of a record
ToBoolean(v) == IF v \in {T, NUM5} THEN T ELSE F

\* JSON.stringify of one stored record: a property whose value is undefined
\* is left out
Stringified(slot) ==
    FileRecord("object", slot.name, slot.enabled, slot.code,
               slot.playersCanRun)

-----------------------------------------------------------------------------
(* MIN variant: ScriptSlotsConfig._activateDOM *)

\* click on [data-action=add]
MinAdd(c) ==
    /\ variant = "MIN" /\ c \in online /\ OpenConfig(c)
    /\ UiCommit(c, "add",
                Handled(ObjSet(Held(c), "New Slot",
                               Slot("New Slot", T, C_EMPTY, U)),
                        Held(c), TRUE, 0, Done(U), Done(U)))
    /\ UNCHANGED selected

\* click on [data-action=save]; sel is the value of #slot-select
MinSave(c, sel, name, code, enabled) ==
    /\ variant = "MIN" /\ c \in online /\ OpenConfig(c)
    /\ sel \in (IF Held(c) = <<>> THEN {""} ELSE Keys(Held(c)))
    /\ UiCommit(c, "save",
                Handled(ObjSet(ObjDelete(Held(c), sel), name,
                               Slot(name, Bool(enabled), code, U)),
                        Held(c), TRUE, 0, Done(U), Done(U)))
    /\ UNCHANGED selected

-----------------------------------------------------------------------------
(* RUN variant: ScriptSlotsConfig.activateListeners *)

\* a stored name equal to nn up to letter case
HasNameIgnoringCase(list, nn) ==
    \E i \in 1..Len(list) : ToLowerCase(list[i].name) = ToLowerCase(nn)

\* action "add"; input is the text typed into the prompt
RunAddResult(list, input) ==
    LET nn == NormName(Trim(input))
    IN  IF nn = "" THEN list
        ELSE IF HasNameIgnoringCase(list, nn) THEN list
        ELSE Append(list, Slot(nn, U, C_TEMPLATE, U))

RunAddHandled(c, input) ==
    LET nn == NormName(Trim(input))
        list == Held(c)
    IN  IF ~IsGM(c) THEN Returns(c, Done(U))
        ELSE IF nn = "" THEN Returns(c, Notified("error", "NameEmpty", FALSE))
        ELSE IF HasNameIgnoringCase(list, nn)
             THEN Returns(c, Notified("error", "Duplicate", FALSE))
        ELSE Handled(RunAddResult(list, input), list, TRUE, 0, Done(U),
                     Notified("error", "WriteRejected", FALSE))

RunAdd(c, input) ==
    /\ variant = "RUN" /\ c \in online /\ OpenConfig(c)
    /\ Len(scripts) < MaxSlots
    /\ UiCommit(c, "add", RunAddHandled(c, input))
    /\ selected' = IF scripts' # scripts THEN NormName(Trim(input))
                   ELSE selected

\* action "save"; nameInput and code are the values of the form
RunSaveResult(list, nameInput, code) ==
    LET nn == NormName(nameInput)
        i == FirstIndex([k \in 1..Len(list) |->
                            ToLowerCase(list[k].name) = ToLowerCase(nn)])
    IN  IF nn = "" THEN list
        ELSE IF i # 0 THEN [list EXCEPT ![i].code = code]
        ELSE Append(list, Slot(nn, U, code, U))

\* getScripts() copies the array and shares its records: the assignment
\* existing.code = code reaches the value held, the push does not
RunSaveHandled(c, nameInput, code) ==
    LET nn == NormName(nameInput)
        list == Held(c)
        new == RunSaveResult(list, nameInput, code)
    IN  IF ~IsGM(c) THEN Returns(c, Done(U))
        ELSE IF nn = "" THEN Returns(c, Notified("error", "NameEmpty", FALSE))
        ELSE Handled(new, IF HasNameIgnoringCase(list, nn) THEN new ELSE list,
                     TRUE, 0, Notified("info", "Saved", FALSE),
                     Notified("error", "WriteRejected", FALSE))

RunSave(c, nameInput, code) ==
    /\ variant = "RUN" /\ c \in online /\ OpenConfig(c)
    /\ Len(scripts) < MaxSlots \/ HasNameIgnoringCase(scripts, NormName(nameInput))
    /\ UiCommit(c, "save", RunSaveHandled(c, nameInput, code))
    /\ selected' = IF NormName(nameInput) = "" \/ ~last'.ui.issued THEN selected
                   ELSE NormName(nameInput)

\* action "delete" on the list item of a stored slot, confirmed
RunDeleteResult(list, name) ==
    LET nn == NormName(name)
        keep == [k \in 1..Len(list) |->
                    ToLowerCase(list[k].name) # ToLowerCase(nn)]
    IN  IF nn = "" THEN list ELSE Filter(list, keep)

RunDeleteHandled(c, name) ==
    IF ~IsGM(c) \/ NormName(name) = "" THEN Returns(c, Done(U))
    ELSE Handled(RunDeleteResult(Held(c), name), Held(c), TRUE, 0, Done(U),
                 Notified("error", "WriteRejected", FALSE))

RunDelete(c, name) ==
    /\ variant = "RUN" /\ c \in online /\ OpenConfig(c)
    /\ name \in Keys(scripts)
    /\ UiCommit(c, "delete", RunDeleteHandled(c, name))
    /\ selected' = IF last'.ui.issued /\ selected # NULL
                      /\ ToLowerCase(selected) = ToLowerCase(NormName(name))
                   THEN NULL ELSE selected

\* action "import": the records of the file, cleaned
RECURSIVE RunImportCleaned(_)
RunImportCleaned(file) ==
    IF file = <<>> THEN <<>>
    ELSE LET n == NormName(StringOrEmpty(FieldOf(Head(file), "name")))
         IN  (IF n = "" THEN <<>>
              ELSE <<Slot(n, U, StringOrEmpty(FieldOf(Head(file), "code")),
                          U)>>)
             \o RunImportCleaned(Tail(file))

RunImportHandled(c, file) ==
    LET cleaned == RunImportCleaned(file.records)
    IN  IF ~IsGM(c) THEN Returns(c, Done(U))
        ELSE IF file.kind = "notJSON"
             THEN Returns(c, Notified("error", "InvalidJSON", FALSE))
        ELSE IF file.kind = "scalar"
             THEN Returns(c, Notified("error", "NotAList", FALSE))
        ELSE Handled(cleaned, Held(c), TRUE,
                     Len(file.records) - Len(cleaned),
                     Notified("info", "Imported", FALSE),
                     Notified("error", "WriteRejected", FALSE))

RunImport(c, file) ==
    /\ variant = "RUN" /\ c \in online /\ OpenConfig(c)
    /\ UiCommit(c, "import", RunImportHandled(c, file))
    /\ selected' = IF ~last'.ui.issued THEN selected
                   ELSE IF RunImportCleaned(file.records) = <<>> THEN NULL
                   ELSE RunImportCleaned(file.records)[1].name

\* action "export": the file downloaded; nothing is written
RunExport(c) ==
    /\ variant = "RUN" /\ c \in online /\ OpenConfig(c)
    /\ UiCommit(c, "export",
                Returns(c, IF IsGM(c) THEN Notified("info", "Exported", FALSE)
                           ELSE Done(U)))
    /\ UNCHANGED selected

\* the world setting "scripts" written through game.settings.set outside
\* the config UI (a GM macro or console call)
RunSettingsSet(c, list) ==
    /\ variant = "RUN" /\ GMOnline(c)
    /\ UiCommit(c, "set", Handled(list, Held(c), TRUE, 0, Done(U), Done(U)))
    /\ UNCHANGED selected

-----------------------------------------------------------------------------
(* OP variant: ScriptSlotsConfig.activateListeners *)

\* if (!game.user.isGM) return notifyGMOnly();
NotifyGMOnly(c) == Returns(c, Notified("warn", "GMOnly", FALSE))

\* click on .ss-add; input is the text typed into the prompt
OpAddResult(list, input) ==
    LET name == Trim(input)
    IN  IF name = "" THEN list
        ELSE IF FindSlot(list, name) # 0 THEN list
        ELSE Append(list, Slot(name, T, C_EMPTY, U))

OpAddHandled(c, input) ==
    LET new == OpAddResult(Held(c), input)
    IN  IF ~IsGM(c) THEN NotifyGMOnly(c)
        ELSE IF Trim(input) = "" THEN Returns(c, Done(U))
        ELSE IF FindSlot(Held(c), Trim(input)) # 0
             THEN Returns(c, Notified("error", "Duplicate", FALSE))
        ELSE Handled(new, new, TRUE, 0, Done(U), WriteRejected)

OpAdd(c, input) ==
    /\ variant = "OP" /\ c \in online /\ OpenConfig(c)
    /\ Len(scripts) < MaxSlots
    /\ UiCommit(c, "add", OpAddHandled(c, input))
    /\ UNCHANGED selected

\* click on .ss-delete; chosen is the value of .ss-select, confirmed
OpDeleteResult(list, chosen) ==
    Filter(list, [k \in 1..Len(list) |->
                     NormalizeSlotName(list[k].name) # NormalizeSlotName(chosen)])

OpDeleteHandled(c, chosen) ==
    IF ~IsGM(c) THEN NotifyGMOnly(c)
    ELSE IF chosen = "" THEN Returns(c, Done(U))
    ELSE Handled(OpDeleteResult(Held(c), chosen), Held(c), TRUE, 0, Done(U),
                 WriteRejected)

OpDelete(c, chosen) ==
    /\ variant = "OP" /\ c \in online /\ OpenConfig(c)
    /\ chosen \in Keys(Held(c))
    /\ UiCommit(c, "delete", OpDeleteHandled(c, chosen))
    /\ UNCHANGED selected

\* click on .ss-export: the text shown, as the file it parses to
OpExported(list) ==
    File("records", [k \in 1..Len(list) |-> Stringified(list[k])])

OpExport(c) ==
    /\ variant = "OP" /\ c \in online /\ OpenConfig(c)
    /\ UiCommit(c, "export", IF ~IsGM(c) THEN NotifyGMOnly(c)
                             ELSE Returns(c, Done(U)))
    /\ UNCHANGED selected

\* isString(v)
IsString(v) == v \notin {U, NUM5}

\* an import that stores every record as disabled
OpImportCleanedDisabled(records) ==
    Filter([k \in 1..Len(records) |->
               Slot(NormalizeSlotName(StringOrEmpty(FieldOf(records[k], "name"))),
                    F, StringOrEmpty(FieldOf(records[k], "code")), U)],
           [k \in 1..Len(records) |->
               /\ records[k].kind = "object" /\ IsString(records[k].name)
               /\ NormalizeSlotName(records[k].name) # ""])

\* click on .ss-import: filter, map, filter over the parsed array
RECURSIVE OpImportCleaned(_)
OpImportCleaned(records) ==
    IF records = <<>> THEN <<>>
    ELSE LET s == Head(records)
             name == NormalizeSlotName(FieldOf(s, "name"))
         IN  (IF s.kind = "object" /\ IsString(s.name) /\ name # ""
              THEN <<Slot(name, ToBoolean(s.enabled), StringOrEmpty(s.code),
                          U)>>
              ELSE <<>>)
             \o OpImportCleaned(Tail(records))

\* an import that stores the empty list when the text is not a JSON array
OpImportHandledUnvalidated(c, file) ==
    IF ~IsGM(c) THEN NotifyGMOnly(c)
    ELSE Handled(IF file.kind = "records"
                 THEN Filter([k \in 1..Len(file.records) |->
                                 Slot(NormalizeSlotName(StringOrEmpty(
                                          FieldOf(file.records[k], "name"))),
                                      ToBoolean(FieldOf(file.records[k],
                                                        "enabled")),
                                      StringOrEmpty(FieldOf(file.records[k],
                                                            "code")), U)],
                             [k \in 1..Len(file.records) |->
                                 /\ file.records[k].kind = "object"
                                 /\ IsString(file.records[k].name)
                                 /\ NormalizeSlotName(file.records[k].name)
                                        # ""])
                 ELSE <<>>,
                 Held(c), TRUE, 0, Notified("info", "Imported", FALSE),
                 Notified("error", "ImportFailed", FALSE))

OpImportHandled(c, file) ==
    LET cleaned == OpImportCleaned(file.records)
    IN  IF ~IsGM(c) THEN NotifyGMOnly(c)
        ELSE IF file.kind # "records"
             THEN Returns(c, Notified("error", "ImportFailed", FALSE))
        ELSE Handled(cleaned, Held(c), TRUE,
                     Len(file.records) - Len(cleaned),
                     Notified("info", "Imported", FALSE),
                     Notified("error", "ImportFailed", FALSE))

OpImport(c, file) ==
    /\ variant = "OP" /\ c \in online /\ OpenConfig(c)
    /\ UiCommit(c, "import", OpImportHandled(c, file))
    /\ UNCHANGED selected

\* click on .ss-export, the text copied, then click on .ss-import with
\* that text pasted
OpImportExported(c) ==
    /\ variant = "OP" /\ c \in online /\ OpenConfig(c)
    /\ UiCommit(c, "reimport", OpImportHandled(c, OpExported(Held(c))))
    /\ UNCHANGED selected

\* click on .ss-save; chosen is the value of .ss-select
OpSaveResult(list, chosen, nameInput, enabled, code) ==
    LET newName == NormalizeSlotName(nameInput)
        i == FindSlot(list, chosen)
    IN  IF newName = "" THEN list
        ELSE IF i = 0 THEN list
        ELSE IF NormalizeSlotName(chosen) # newName /\ FindSlot(list, newName) # 0
             THEN list
        ELSE [list EXCEPT ![i] = Slot(newName, Bool(enabled), code,
                                      list[i].playersCanRun)]

OpSaveHandled(c, chosen, nameInput, enabled, code) ==
    LET newName == NormalizeSlotName(nameInput)
        list == Held(c)
        new == OpSaveResult(list, chosen, nameInput, enabled, code)
    IN  IF ~IsGM(c) THEN NotifyGMOnly(c)
        ELSE IF newName = ""
             THEN Returns(c, Notified("error", "NameRequired", FALSE))
        ELSE IF FindSlot(list, chosen) = 0
             THEN Returns(c, Notified("error", "NoSlotSelected", FALSE))
        ELSE IF NormalizeSlotName(chosen) # newName
                /\ FindSlot(list, newName) # 0
             THEN Returns(c, Notified("error", "Duplicate", FALSE))
        ELSE Handled(new, new, TRUE, 0, Notified("info", "Saved", FALSE),
                     WriteRejected)

OpSave(c, chosen, nameInput, enabled, code) ==
    /\ variant = "OP" /\ c \in online /\ OpenConfig(c)
    /\ chosen \in Keys(Held(c))
    /\ UiCommit(c, "save", OpSaveHandled(c, chosen, nameInput, enabled, code))
    /\ UNCHANGED selected

-----------------------------------------------------------------------------
(* SSR variant: ScriptSlotsConfig *)

\* isNonEmptyString(x)
IsNonEmptyString(x) == IsString(x) /\ Trim(x) # ""

\* an exception that leaves an async handler nobody awaits
Unhandled(e) == Deny(e)

\* _onAdd, button "Create"
SsrAddResult(obj, input, enabled, playersCanRun) ==
    LET name == NormalizeName(input)
    IN  IF name = "" THEN obj
        ELSE IF KeyIndex(obj, name) # 0 THEN obj
        ELSE ObjSet(obj, name,
                    Slot(name, Bool(enabled), C_TEMPLATE, Bool(playersCanRun)))

SsrAddHandled(c, input, enabled, playersCanRun) ==
    LET name == NormalizeName(input)
        new == SsrAddResult(Held(c), input, enabled, playersCanRun)
    IN  IF ~IsNonEmptyString(name)
        THEN Returns(c, Notified("error", "NameRequired", FALSE))
        ELSE IF KeyIndex(Held(c), name) # 0
             THEN Returns(c, Notified("error", "Duplicate", FALSE))
        ELSE Handled(new, new, TRUE, 0, Done(U), Unhandled("WriteRejected"))

SsrAdd(c, input, enabled, playersCanRun) ==
    /\ variant = "SSR" /\ c \in online /\ OpenConfig(c)
    /\ Len(Held(c)) < MaxSlots
    /\ UiCommit(c, "add", SsrAddHandled(c, input, enabled, playersCanRun))
    /\ UNCHANGED selected

\* a handler that assigns to the value read and then writes it
InPlace(new) == Handled(new, new, TRUE, 0, Done(U), Unhandled("WriteRejected"))

\* _onEdit of a listed slot, button "Save" pressed with the given code
SsrEditSave(c, name, code) ==
    /\ variant = "SSR" /\ c \in online /\ OpenConfig(c)
    /\ KeyIndex(Held(c), NormalizeName(name)) # 0
    /\ UiCommit(c, "edit",
                InPlace([Held(c) EXCEPT
                            ![KeyIndex(Held(c), NormalizeName(name))].code =
                                code]))
    /\ UNCHANGED selected

\* _onDelete of a listed slot, button "Delete"
SsrDelete(c, name) ==
    /\ variant = "SSR" /\ c \in online /\ OpenConfig(c)
    /\ KeyIndex(Held(c), NormalizeName(name)) # 0
    /\ UiCommit(c, "delete", InPlace(ObjDelete(Held(c), NormalizeName(name))))
    /\ UNCHANGED selected

\* _onToggle of the checkbox of a listed slot
SsrToggle(c, name, field, checked) ==
    /\ variant = "SSR" /\ c \in online /\ OpenConfig(c)
    /\ KeyIndex(Held(c), NormalizeName(name)) # 0
    /\ UiCommit(c, "toggle",
                InPlace([Held(c) EXCEPT
                            ![KeyIndex(Held(c), NormalizeName(name))][field] =
                                Bool(checked)]))
    /\ UNCHANGED selected

\* _onExport: the file downloaded
SsrExported(obj) ==
    File("records", [k \in 1..Len(obj) |-> Stringified(obj[k])])

SsrExport(c) ==
    /\ variant = "SSR" /\ c \in online /\ OpenConfig(c)
    /\ UiCommit(c, "export", Returns(c, Done(U)))
    /\ UNCHANGED selected

\* what the loop of an import made of the collection: the entries assigned
\* so far, how many were skipped, and whether an entry threw
Merged(list, dropped, threw) ==
    [list |-> list, dropped |-> dropped, threw |-> threw]

\* _onImport: the loop over Object.entries(parsed); v.enabled of a null
\* entry throws a TypeError
RECURSIVE SsrImportMerge(_, _, _)
SsrImportMerge(obj, records, dropped) ==
    IF records = <<>> THEN Merged(obj, dropped, FALSE)
    ELSE LET v == Head(records)
             k == NormalizeName(v.name)
         IN  IF ~IsNonEmptyString(v.name) \/ v.kind = "number"
             THEN SsrImportMerge(obj, Tail(records), dropped + 1)
             ELSE IF v.kind = "null" THEN Merged(obj, dropped, TRUE)
             ELSE SsrImportMerge(
                      ObjSet(obj, k,
                             Slot(k, ToBoolean(v.enabled),
                                  StringOrEmpty(v.code),
                                  ToBoolean(v.playersCanRun))),
                      Tail(records), dropped)

SsrImportHandled(c, file) ==
    LET m == SsrImportMerge(Held(c), file.records, 0)
    IN  IF file.kind = "notJSON"
        THEN Returns(c, Notified("error", "InvalidJSON", FALSE))
        ELSE IF file.kind = "scalar"
             THEN Returns(c, Notified("error", "InvalidImport", FALSE))
        ELSE IF m.threw
             THEN Handled(Held(c), m.list, FALSE, m.dropped,
                          Unhandled("TypeError"), Unhandled("TypeError"))
        ELSE Handled(m.list, m.list, TRUE, m.dropped,
                     Notified("info", "Imported", FALSE),
                     Unhandled("WriteRejected"))

SsrImport(c, file) ==
    /\ variant = "SSR" /\ c \in online /\ OpenConfig(c)
    /\ UiCommit(c, "import", SsrImportHandled(c, file))
    /\ UNCHANGED selected

\* the world setting "scripts" written through game.settings.set outside
\* the config UI (a GM macro or console call, or the RS variant, which keeps
\* its records under the same module id and key): the setting is registered
\* with type Object and nothing checks the fields of a record
SsrSettingsSet(c, obj) ==
    /\ variant = "SSR" /\ GMOnline(c)
    /\ UiCommit(c, "set", Handled(obj, Held(c), TRUE, 0, Done(U), Done(U)))
    /\ UNCHANGED selected

\* _onExport, then _onImport of the file downloaded
SsrImportExported(c) ==
    /\ variant = "SSR" /\ c \in online /\ OpenConfig(c)
    /\ UiCommit(c, "reimport", SsrImportHandled(c, SsrExported(Held(c))))
    /\ UNCHANGED selected

-----------------------------------------------------------------------------
(* RS variant: ScriptSlotsConfig *)

\* the try/catch of the listeners: a handler that throws ends in a
\* notification
RsCaught(h) == [h EXCEPT !.rejected = Caught(h.rejected)]

\* _onAdd, button "Create"
RsAddResult(obj, input) ==
    LET name == NormalizeName(input)
    IN  IF name = "" THEN obj
        ELSE IF KeyIndex(obj, name) # 0 THEN obj
        ELSE ObjSet(obj, name, Slot(name, T, C_EMPTY, U))

RsAddHandled(c, input) ==
    LET name == NormalizeName(input)
    IN  IF ~IsNonEmptyString(name)
        THEN Returns(c, Notified("warn", "NameRequired", FALSE))
        ELSE IF KeyIndex(Held(c), name) # 0
             THEN Returns(c, Notified("warn", "Duplicate", FALSE))
        ELSE Handled(RsAddResult(Held(c), input), Held(c), TRUE, 0, Done(U),
                     Unhandled("WriteRejected"))

RsAdd(c, input) ==
    /\ variant = "RS" /\ c \in online /\ OpenConfig(c)
    /\ Len(Held(c)) < MaxSlots
    /\ UiCommit(c, "add", RsAddHandled(c, input))
    /\ UNCHANGED selected

\* a handler that changes its deep clone of the value read and writes it
OnClone(c, new) ==
    Handled(new, Held(c), TRUE, 0, Done(U), Unhandled("WriteRejected"))

\* _onEdit of a listed slot, button "Save" pressed with the given code
RsEditSave(c, name, code) ==
    /\ variant = "RS" /\ c \in online /\ OpenConfig(c)
    /\ KeyIndex(Held(c), NormalizeName(name)) # 0
    /\ UiCommit(c, "edit",
                OnClone(c, [Held(c) EXCEPT
                               ![KeyIndex(Held(c), NormalizeName(name))].code =
                                   code]))
    /\ UNCHANGED selected

\* _onDelete of a listed slot, confirmed
RsDelete(c, name) ==
    /\ variant = "RS" /\ c \in online /\ OpenConfig(c)
    /\ KeyIndex(Held(c), NormalizeName(name)) # 0
    /\ UiCommit(c, "delete",
                RsCaught(OnClone(c, ObjDelete(Held(c), NormalizeName(name)))))
    /\ UNCHANGED selected

\* _onToggle of the checkbox of a listed slot
RsToggle(c, name, enabled) ==
    /\ variant = "RS" /\ c \in online /\ OpenConfig(c)
    /\ KeyIndex(Held(c), NormalizeName(name)) # 0
    /\ UiCommit(c, "toggle",
                RsCaught(OnClone(c,
                    [Held(c) EXCEPT
                        ![KeyIndex(Held(c), NormalizeName(name))].enabled =
                            Bool(enabled)])))
    /\ UNCHANGED selected

\* _onExport: the file saved; nothing is written
RsExport(c) ==
    /\ variant = "RS" /\ c \in online /\ OpenConfig(c)
    /\ UiCommit(c, "export", Returns(c, Done(U)))
    /\ UNCHANGED selected

\* _onImport: the loop over Object.entries(incoming ?? {}); entry.enabled
\* of a null entry throws a TypeError, of a number is undefined
RECURSIVE RsImportMerge(_, _, _)
RsImportMerge(obj, records, dropped) ==
    IF records = <<>> THEN Merged(obj, dropped, FALSE)
    ELSE LET entry == Head(records)
             n == NormalizeName(StringOrEmpty(entry.name))
         IN  IF ~IsNonEmptyString(n)
             THEN RsImportMerge(obj, Tail(records), dropped + 1)
             ELSE IF entry.kind = "null" THEN Merged(obj, dropped, TRUE)
             ELSE RsImportMerge(
                      ObjSet(obj, n,
                             Slot(n, ToBoolean(FieldOf(entry, "enabled")),
                                  StringOrEmpty(FieldOf(entry, "code")), U)),
                      Tail(records), dropped)

RsImportHandled(c, file) ==
    LET m == RsImportMerge(Held(c),
                           IF file.kind = "records" THEN file.records
                           ELSE <<>>, 0)
    IN  IF file.kind = "notJSON"
        THEN Returns(c, Notified("error", "InvalidJSON", FALSE))
        ELSE IF m.threw
             THEN Handled(Held(c), Held(c), FALSE, m.dropped,
                          Unhandled("TypeError"), Unhandled("TypeError"))
        ELSE Handled(m.list, Held(c), TRUE, m.dropped, Done(U),
                     Unhandled("WriteRejected"))

RsImport(c, file) ==
    /\ variant = "RS" /\ c \in online /\ OpenConfig(c)
    /\ UiCommit(c, "import", RsImportHandled(c, file))
    /\ UNCHANGED selected

-----------------------------------------------------------------------------
(* list() of the public API *)

\* the names of the collection in stored order: Object.keys(obj), and
\* list.map(s => s.name)
StoredNames(list) == [i \in 1..Len(list) |-> list[i].name]

\* the place of a name of the model among the others when strings are
\* compared by UTF-16 code units: " " < "5" < "A" < "N" < "a" < "b"
CodeUnitRank(name) ==
    CASE name = ""         -> 0
      [] name = " "        -> 1
      [] name = " a"       -> 2
      [] name = "5"        -> 3
      [] name = "A"        -> 4
      [] name = "New Slot" -> 5
      [] name = "a"        -> 6
      [] OTHER             -> 7

\* Array.prototype.sort() without a comparator, on distinct strings
DefaultSort(names) ==
    CHOOSE sorted \in [1..Len(names) -> {names[i] : i \in 1..Len(names)}] :
        /\ \A i \in 1..Len(names) : \E j \in 1..Len(names) : sorted[j] = names[i]
        /\ \A i, j \in 1..Len(names) :
               i < j => CodeUnitRank(sorted[i]) <= CodeUnitRank(sorted[j])

\* list() as client c obtains it
List(c) ==
    IF variant \in {"MIN", "RUN", "OP"} THEN StoredNames(Held(c))
    ELSE DefaultSort(StoredNames(Held(c)))

\* game.scriptSlots.list() called on client c
ListCall(c) ==
    /\ c \in online
    /\ last' = Obs("ui", c, 0, NoRequest, 0, FALSE, FALSE, Done(U),
                   UiNote("list", FALSE, FALSE, 0, List(c)))
    /\ UNCHANGED <<variant, online, hung, scripts, requireOwner, requireToken,
                   socket, emitted, execCount, selected, stale, pending>>

-----------------------------------------------------------------------------
(* The policy settings, changed by a GM *)

SetRequireOwner(c, value) ==
    /\ variant # "MIN" /\ GMOnline(c)
    /\ requireOwner' = value
    /\ last' = UiObs(c)
    /\ UNCHANGED <<variant, online, hung, scripts, requireToken, socket, emitted,
                   execCount, selected, stale, pending>>

SetRequireToken(c, value) ==
    /\ variant # "MIN" /\ GMOnline(c)
    /\ requireToken' = value
    /\ last' = UiObs(c)
    /\ UNCHANGED <<variant, online, hung, scripts, requireOwner, socket, emitted,
                   execCount, selected, stale, pending>>

-----------------------------------------------------------------------------
(* The run path *)

\* game.socket.emit(SOCKET, payload) by client c: one delivery for every
\* other connected client; from is the client that published, which no
\* listener is given
Deliveries(c, id, payload) ==
    {[id |-> id, from |-> c, to |-> d, payload |-> payload] :
        d \in online \ {c}}

\* a client calls the public run(name, args)
Run(c, name, actorId) ==
    LET call == ApiRun(c, name, actorId)
        n == Len(call.emits)
    IN  /\ c \in online
        /\ emitted + n <= MaxMsgs
        /\ socket' = IF n = 0 THEN socket
                     ELSE socket \cup Deliveries(c, emitted + 1, call.emits[1])
        /\ emitted' = emitted + n
        /\ scripts' = SettingsAfterRun(scripts)
        /\ hung' = IF call.out.status = "pending" THEN hung \cup {c} ELSE hung
        /\ last' = Obs("run", c, IF n = 0 THEN 0 ELSE emitted + 1,
                       Request(name, actorId, c), n, FALSE, scripts' # scripts,
                       call.out, NoUi)
        /\ UNCHANGED <<variant, online, requireOwner, requireToken, execCount,
                       selected, stale, pending>>

\* a client publishes a payload of its own making on the module socket
EmitRaw(c, payload) ==
    /\ variant # "MIN"
    /\ c \in online
    /\ emitted < MaxMsgs
    /\ socket' = socket \cup Deliveries(c, emitted + 1, payload)
    /\ emitted' = emitted + 1
    /\ last' = Obs("emit", c, emitted + 1, NoRequest, 1, Malformed(payload),
                   FALSE, Done(U), NoUi)
    /\ UNCHANGED <<variant, online, hung, scripts, requireOwner, requireToken,
                   execCount, selected, stale, pending>>

\* a client that handles no delivery while an invocation of its own is
\* still awaiting
DeliverSerialized(to, id) ==
    \E d \in socket :
    LET out == OnSocket(d.to, d.payload)
    IN  /\ d.to = to /\ d.id = id
        /\ d.to \notin hung
        /\ socket' = socket \ {d}
        /\ execCount' = IF out.ran THEN [execCount EXCEPT ![d.id] = @ + 1]
                        ELSE execCount
        /\ scripts' = SettingsAfterRun(scripts)
        /\ hung' = IF out.status = "pending" THEN hung \cup {d.to} ELSE hung
        /\ last' = Obs("recv", d.to, d.id, RequestOf(d.payload), 0,
                       Malformed(d.payload), scripts' # scripts, out, NoUi)
        /\ UNCHANGED <<variant, online, requireOwner, requireToken, emitted,
                       selected, stale, pending>>

\* the delivery of message id reaches client to: the variant's listener runs
\* there; an async listener that awaits gives the event loop back, so
\* nothing here waits for an earlier invocation
Deliver(to, id) ==
    \E d \in socket :
    LET out == OnSocket(d.to, d.payload)
    IN  /\ d.to = to /\ d.id = id
        /\ socket' = socket \ {d}
        /\ execCount' = IF out.ran THEN [execCount EXCEPT ![d.id] = @ + 1]
                        ELSE execCount
        /\ scripts' = SettingsAfterRun(scripts)
        /\ hung' = IF out.status = "pending" THEN hung \cup {d.to} ELSE hung
        /\ last' = Obs("recv", d.to, d.id, RequestOf(d.payload), 0,
                       Malformed(d.payload), scripts' # scripts, out, NoUi)
        /\ UNCHANGED <<variant, online, requireOwner, requireToken, emitted,
                       selected, stale, pending>>

-----------------------------------------------------------------------------
(* Inputs of the run-path specification *)

\* the GM who works the config UI and the settings
Operators == {"gm"}
\* the clients that call the API: one GM and one player
Callers == {"gm", "p1"}
ExecNames == {"a"}
RunNames == {"a", ""}
RunActorIds == {NoId, "a1", "a2", UnknownActor}
\* the calls of run(name, {actorId}): the player names the slot with every
\* actorId, the GM with none and with a1; each calls once without a name
RunInputs(c) ==
    {<<n, a>> \in RunNames \X RunActorIds :
        /\ n = "" => a = NoId
        /\ IsGM(c) => a \in {NoId, "a1"}}
SaveCodes == {C_BODY, C_THROW, C_RUNTHROW, C_SYNTAX}
\* the players, who may publish what they like
RawSenders == {"p1"}

\* payloads a listener must ignore: null, and one without discriminator
RawPayloads(c) == {NullPayload, Payload(U, U, "a", "a1", c)}

\* a payload with the discriminator of the variant in use, as run() builds it
Discriminated(name, actorId, userId) ==
    CASE variant = "RUN" -> Payload("RUN", U, name, actorId, userId)
      [] variant = "OP"  -> Payload(U, "run", name, actorId, userId)
      [] variant = "SSR" -> Payload("SCRIPT_SLOTS_RUN", U, name, actorId, userId)
      [] variant = "RS"  -> Payload("RUN_SLOT", U, name, actorId, userId)
      [] OTHER           -> NullPayload

\* what a player writes into the requester field of a request of their own
\* making for the actor a2: the id of the GM, or nothing
ForgedUserIds == {"gm", U}

\* collections written outside the config UI: slot records of the data model
ExternalCollections == {<<Slot("a", e, C_BODY, U)>> : e \in {T, F}}

Next ==
    \/ \E c \in Operators : MinAdd(c)
    \/ \E c \in Operators, sel \in NameStrings, n \in ExecNames, code \in SaveCodes,
          e \in BOOLEAN : MinSave(c, sel, n, code, e)
    \/ \E c \in Operators, n \in ExecNames : RunAdd(c, n)
    \/ \E c \in Operators, n \in ExecNames, code \in SaveCodes : RunSave(c, n, code)
    \/ \E c \in Operators, list \in ExternalCollections : RunSettingsSet(c, list)
    \/ \E c \in Operators, n \in ExecNames : OpAdd(c, n)
    \/ \E c \in Operators, n \in ExecNames, code \in SaveCodes, e \in BOOLEAN :
          OpSave(c, n, n, e, code)
    \/ \E c \in Operators, n \in ExecNames, e \in BOOLEAN, p \in BOOLEAN :
          SsrAdd(c, n, e, p)
    \/ \E c \in Operators, n \in ExecNames, code \in SaveCodes : SsrEditSave(c, n, code)
    \/ \E c \in Operators, n \in ExecNames, f \in {"enabled", "playersCanRun"},
          b \in BOOLEAN : SsrToggle(c, n, f, b)
    \/ \E c \in Operators, obj \in ExternalCollections : SsrSettingsSet(c, obj)
    \/ \E c \in Operators, n \in ExecNames : RsAdd(c, n)
    \/ \E c \in Operators, n \in ExecNames, code \in SaveCodes : RsEditSave(c, n, code)
    \/ \E c \in Operators, n \in ExecNames, b \in BOOLEAN : RsToggle(c, n, b)
    \/ \E c \in Operators, b \in BOOLEAN : SetRequireOwner(c, b)
    \/ \E c \in Operators, b \in BOOLEAN : SetRequireToken(c, b)
    \/ \E c \in Callers : \E i \in RunInputs(c) : Run(c, i[1], i[2])
    \/ \E c \in RawSenders : \E p \in RawPayloads(c) : EmitRaw(c, p)
    \/ \E c \in RawSenders, u \in ForgedUserIds :
          EmitRaw(c, Discriminated("a", "a2", u))
    \/ \E to \in Users, id \in 1..MaxMsgs : Deliver(to, id)

Spec == Init /\ [][Next]_vars

-----------------------------------------------------------------------------
(* Authoring: the GM saves a text into the slot "a" of the RUN or the OP *)
(* variant and runs it, directly and for a request of the player p1      *)

AuthoredCodes ==
    {C_BODY, C_THROW, C_SYNTAX, C_TEMPLATE, C_RUN42, C_COMMENT, C_NESTED}

InitAuthor == Init /\ variant \in {"RUN", "OP"}

NextAuthor ==
    \/ \E c \in Operators, n \in ExecNames : RunAdd(c, n)
    \/ \E c \in Operators, n \in ExecNames, code \in AuthoredCodes :
          RunSave(c, n, code)
    \/ \E c \in Operators, n \in ExecNames : OpAdd(c, n)
    \/ \E c \in Operators, n \in ExecNames, code \in AuthoredCodes :
          OpSave(c, n, n, TRUE, code)
    \/ \E c \in Callers, n \in ExecNames : Run(c, n, "a1")
    \/ \E to \in Users, id \in 1..MaxMsgs : Deliver(to, id)

SpecAuthor == InitAuthor /\ [][NextAuthor]_vars

-----------------------------------------------------------------------------
(* Hanging scripts: the RUN variant with a slot whose script awaits forever; *)
(* the event loop of a GM client hands every delivery it received to the     *)
(* listener                                                                  *)

\* the slot "a" is given the script that awaits forever, the slot "b" one
\* that returns
HangNames == {"a", "b"}
HangCode(n) == IF n = "a" THEN C_HANG ELSE C_BODY

InitHang == Init /\ variant = "RUN" /\ online = {"gm", "p1", "p2"}

\* the GM starts the script that hangs; the player asks for either slot; the
\* operator adds and deletes the slot "b" and saves both
NextHang ==
    \/ \E c \in Operators : RunAdd(c, "b")
    \/ \E c \in Operators, n \in HangNames : RunSave(c, n, HangCode(n))
    \/ \E c \in Operators : RunDelete(c, "b")
    \/ \E c \in Operators : Run(c, "a", "a1")
    \/ \E n \in HangNames : Run("p1", n, "a1")
    \/ \E to \in Users, id \in 1..MaxMsgs : Deliver(to, id)

SpecHang ==
    /\ InitHang /\ [][NextHang]_vars
    /\ WF_vars(\E to \in {"gm", "gm2"}, id \in 1..MaxMsgs : Deliver(to, id))

-----------------------------------------------------------------------------
(* Edit dialogs that stay open, and writes on their way to the server *)

\* the edit dialog client c has open, and the write it has issued
DialogOf(c) == {d \in pending : d.client = c /\ d.kind = "edit"}
WriteOf(c) == {w \in pending : w.client = c /\ w.kind = "write"}

\* a handler that opens a dialog or issues a write and touches nothing else
Opened(c, action, issued) ==
    /\ last' = Obs("ui", c, 0, NoRequest, 0, FALSE, FALSE, Done(U),
                   UiNote(action, TRUE, issued, 0, <<>>))
    /\ UNCHANGED <<variant, online, hung, scripts, requireOwner, requireToken,
                   socket, emitted, execCount, selected, stale>>

\* SSR _onEdit of a listed slot: the dialog opens; its callbacks close over
\* scripts and entry as read now
SsrOnEdit(c, name) ==
    /\ variant = "SSR" /\ c \in online /\ OpenConfig(c)
    /\ KeyIndex(Held(c), NormalizeName(name)) # 0
    /\ DialogOf(c) = {}
    /\ \E shared \in BOOLEAN :
          pending' = pending \cup
              {Pend(c, "edit", NormalizeName(name), Held(c),
                    Held(c)[KeyIndex(Held(c), NormalizeName(name))], shared)}
    /\ Opened(c, "editOpen", FALSE)

\* SSR _onEdit, button "Save" of the open dialog: entry gets the code of the
\* form, is assigned to scripts[name], and scripts is written
SsrEditDialogSave(c, code) ==
    /\ variant = "SSR" /\ c \in online
    /\ \E d \in DialogOf(c) :
          LET new == ObjSet(d.list, d.name, [d.entry EXCEPT !.code = code])
          IN  /\ Len(new) <= MaxSlots
              /\ UiCommitFrom(c, "editSave", InPlace(new), {d})
    /\ UNCHANGED selected

\* RS _onEdit of a listed slot: the dialog opens; its callback closes over
\* the name alone
RsOnEdit(c, name) ==
    /\ variant = "RS" /\ c \in online /\ OpenConfig(c)
    /\ KeyIndex(Held(c), NormalizeName(name)) # 0
    /\ DialogOf(c) = {}
    /\ pending' = pending \cup
           {Pend(c, "edit", NormalizeName(name), <<>>,
                 Held(c)[KeyIndex(Held(c), NormalizeName(name))], FALSE)}
    /\ Opened(c, "editOpen", FALSE)

\* RS _onEdit, button "Save" of the open dialog: the collection is read
\* again; entry2 is scripts2[name] ?? { enabled: true }
RsEditDialogSave(c, code) ==
    /\ variant = "RS" /\ c \in online
    /\ \E d \in DialogOf(c) :
          LET scripts2 == Held(c)
              i == KeyIndex(scripts2, d.name)
              entry2 == IF i # 0 THEN scripts2[i] ELSE Slot(d.name, T, U, U)
              new == ObjSet(scripts2, d.name, [entry2 EXCEPT !.code = code])
          IN  /\ Len(new) <= MaxSlots
              /\ UiCommitFrom(c, "editSave", OnClone(c, new), {d})
    /\ UNCHANGED selected

\* the add of the RS and OP variants as far as its call of
\* game.settings.set: the collection read, with the new slot, is on its way
AddHandled(c, input) ==
    IF variant = "RS" THEN RsAddHandled(c, input) ELSE OpAddHandled(c, input)

AddIssue(c, input) ==
    /\ variant \in {"RS", "OP"} /\ c \in online /\ OpenConfig(c)
    /\ Len(Held(c)) < MaxSlots
    /\ WriteOf(c) = {}
    /\ AddHandled(c, input).issued /\ IsGM(c)
    /\ pending' = pending \cup
           {Pend(c, "write", Trim(input), AddHandled(c, input).list,
                 Slot(Trim(input), T, C_EMPTY, U), FALSE)}
    /\ Opened(c, "addIssue", TRUE)

\* the write issued on client c is applied: the value sent replaces the
\* stored one, and the handler goes on after its await
WriteArrives(c) ==
    /\ c \in online
    /\ \E w \in WriteOf(c) :
          UiCommitFrom(c, "add",
                       Handled(w.list, Held(c), TRUE, 0, Done(U),
                               WriteRejected), {w})
    /\ UNCHANGED selected

-----------------------------------------------------------------------------
(* The config UI of the RUN variant alone, from the empty collection *)

UINames == {"a", "A", " a", "b", ""}
UICodes == {C_BODY, C_THROW}

\* the records of an import file, and the files of up to MaxImport records
ImportRecords == {FileRecord("object", n, U, C_BODY, U) : n \in UINames}
ImportFiles ==
    {File("records", r) :
        r \in UNION {[1..n -> ImportRecords] : n \in 0..MaxImport}}

InitRunUI == Init /\ variant = "RUN"

NextRunUI ==
    \/ \E c \in Operators, n \in UINames : RunAdd(c, n)
    \/ \E c \in Operators, n \in UINames, code \in UICodes : RunSave(c, n, code)
    \/ \E c \in Operators, n \in NameStrings : RunDelete(c, n)
    \/ \E c \in Operators, file \in ImportFiles : RunImport(c, file)

SpecRunUI == InitRunUI /\ [][NextRunUI]_vars

-----------------------------------------------------------------------------
(* The config UI and the list() of every variant, worked by a GM and a     *)
(* player, from the empty collection                                       *)

UIClients == {"gm", "p1"}

\* names typed into the forms: the GM tries them all, the player one
FormNames(c) == IF IsGM(c) THEN {"a", "A", " a", "b", ""} ELSE {"b"}

\* the list items and select options a client clicks on
ItemNames(c) == IF IsGM(c) THEN {"a", "A", "b", "New Slot"} ELSE {"a"}

\* a complete record of an array file
ListValid == FileRecord("object", "b", T, C_BODY, U)

\* the other records of an array file: one without enabled and code whose
\* name needs trimming, names that are blank, missing or a number, null and
\* a number
ListRecords ==
    {FileRecord("object", "A", F, C_BODY, U),
     FileRecord("object", " a", U, U, U),
     FileRecord("object", " ", T, C_BODY, U),
     FileRecord("object", U, T, C_BODY, U),
     FileRecord("object", NUM5, T, C_BODY, U),
     FileRecord("null", U, U, U, U),
     FileRecord("number", U, U, U, U)}

\* a complete entry of an object file, keyed by name
MapValid == FileRecord("object", "b", T, C_BODY, T)

\* the other entries of an object file
MapRecords ==
    {FileRecord("object", "A", F, C_BODY, T),
     FileRecord("object", " a", U, U, U),
     FileRecord("object", " ", T, C_BODY, T),
     FileRecord("null", "A", U, U, U),
     FileRecord("number", "A", U, U, U)}

\* text that is not JSON, and JSON that is a number
BrokenFiles == {File("notJSON", <<>>), File("scalar", <<>>)}

\* files of up to MaxImport records: a record alone or before a complete
\* one, the complete one alone, and the empty file
FilesOf(valid, records) ==
    {File("records", r) :
        r \in {q \in {<<>>, <<valid>>} \cup {<<x>> : x \in records}
                       \cup {<<x, valid>> : x \in records} :
                  Len(q) <= MaxImport}}
    \cup BrokenFiles

\* the files a client imports: the GM any of them, the player one
ListFiles(c) ==
    IF IsGM(c) THEN FilesOf(ListValid, ListRecords)
    ELSE {File("records", <<ListValid>>)}

MapFiles(c) ==
    IF IsGM(c) THEN FilesOf(MapValid, MapRecords)
    ELSE {File("records", <<MapValid>>)}

InitUI == Init /\ online = {"gm", "p1", "p2"}

NextUI ==
    \/ \E c \in UIClients : OpenConfigCall(c)
    \/ \E c \in UIClients : ListCall(c)
    \/ \E c \in UIClients : MinAdd(c)
    \/ \E c \in UIClients : \E sel \in ItemNames(c) \cup {""},
          n \in {"a", "b", "New Slot"} : MinSave(c, sel, n, C_BODY, TRUE)
    \/ \E c \in UIClients : \E n \in FormNames(c) : RunAdd(c, n)
    \/ \E c \in UIClients : \E n \in FormNames(c) : RunSave(c, n, C_BODY)
    \/ \E c \in UIClients : \E n \in ItemNames(c) : RunDelete(c, n)
    \/ \E c \in UIClients : RunExport(c)
    \/ \E c \in UIClients : \E file \in ListFiles(c) :
          RunImport(c, file)
    \/ \E c \in UIClients : \E n \in FormNames(c) : OpAdd(c, n)
    \/ \E c \in UIClients : \E n \in ItemNames(c) : OpDelete(c, n)
    \/ \E c \in UIClients : OpExport(c)
    \/ \E c \in UIClients : \E file \in ListFiles(c) :
          OpImport(c, file)
    \/ \E c \in UIClients : OpImportExported(c)
    \/ \E c \in UIClients : \E chosen \in ItemNames(c), n \in FormNames(c),
          e \in BOOLEAN : OpSave(c, chosen, n, e, C_BODY)
    \/ \E c \in UIClients : \E n \in FormNames(c) : SsrAdd(c, n, TRUE, TRUE)
    \/ \E c \in UIClients : \E n \in ItemNames(c) : SsrEditSave(c, n, C_BODY)
    \/ \E c \in UIClients : \E n \in ItemNames(c) : SsrDelete(c, n)
    \/ \E c \in UIClients : \E n \in ItemNames(c), b \in BOOLEAN :
          SsrToggle(c, n, "enabled", b)
    \/ \E c \in UIClients : SsrExport(c)
    \/ \E c \in UIClients : \E file \in MapFiles(c) : SsrImport(c, file)
    \/ \E c \in UIClients : SsrImportExported(c)
    \/ \E c \in UIClients : \E n \in FormNames(c) : RsAdd(c, n)
    \/ \E c \in UIClients : \E n \in ItemNames(c) : RsEditSave(c, n, C_BODY)
    \/ \E c \in UIClients : \E n \in ItemNames(c) : RsDelete(c, n)
    \/ \E c \in UIClients : \E n \in ItemNames(c), b \in BOOLEAN :
          RsToggle(c, n, b)
    \/ \E c \in UIClients : RsExport(c)
    \/ \E c \in UIClients : \E file \in MapFiles(c) : RsImport(c, file)

SpecUI == InitUI /\ [][NextUI]_vars

-----------------------------------------------------------------------------
(* Two GMs at the config UI of the SSR, RS and OP variants, with dialogs   *)
(* that stay open and writes that take time                                *)

DialogClients == {"gm", "gm2"}
DialogNames == {"a", "b"}

InitDialog ==
    Init /\ variant \in {"SSR", "RS", "OP"} /\ online = {"gm", "gm2", "p1"}

NextDialog ==
    \/ \E c \in DialogClients, n \in DialogNames : SsrAdd(c, n, TRUE, TRUE)
    \/ \E n \in DialogNames : SsrOnEdit("gm", n)
    \/ SsrEditDialogSave("gm", C_BODY)
    \/ \E c \in DialogClients, n \in DialogNames :
          SsrToggle(c, n, "enabled", FALSE)
    \/ \E c \in DialogClients, n \in DialogNames : SsrDelete(c, n)
    \/ \E n \in DialogNames : RsOnEdit("gm", n)
    \/ RsEditDialogSave("gm", C_BODY)
    \/ \E c \in DialogClients, n \in DialogNames : RsToggle(c, n, FALSE)
    \/ \E c \in DialogClients, n \in DialogNames : RsDelete(c, n)
    \/ \E c \in DialogClients, n \in DialogNames : AddIssue(c, n)
    \/ \E c \in DialogClients : WriteArrives(c)

SpecDialog == InitDialog /\ [][NextDialog]_vars

-----------------------------------------------------------------------------
(* Properties *)

\* the step observed last is a run() call or a socket delivery handled
IsRunStep == last.op \in {"run", "recv"}

\* the request observed last names a stored slot; its record
StoredIndex(name) ==
    IF \E i \in 1..Len(scripts) : scripts[i].name = Trim(name)
    THEN CHOOSE i \in 1..Len(scripts) : scripts[i].name = Trim(name)
    ELSE 0

\* the authorization denials of the engines
GateDenials == {"MissingTarget", "NotOwner", "NotPresent", "RequesterNotFound"}

\* C1: in every variant, the minimal one included, a script body is
\* executed only on a client whose user is the GM; a run() call of a non-GM
\* user never executes the body on the caller's own client.
C1_OnlyGMExecutes ==
    (IsRunStep /\ last.out.ran) => IsGM(last.client)

\* C2: in the RUN and OP variants a run() call of the GM for an existing slot
\* executes it whatever requireActorOwner, requireTokenOnScene and the
\* actorId are: no ownership, missing-target or token-presence check denies it.
C2_GMBypassesGate ==
    (/\ variant \in {"RUN", "OP"}
     /\ last.op = "run" /\ IsGM(last.client)
     /\ StoredIndex(last.req.name) # 0
     /\ scripts[StoredIndex(last.req.name)].enabled # F)
    => last.out.err \notin GateDenials

C4_NoActorDenied ==
    (/\ variant = "RS" /\ requireOwner
     /\ last.op = "recv" /\ IsGM(last.client) /\ ~last.malformed
     /\ ~IsGM(last.req.userId)
     /\ ActorsGet(last.req.actorId) = NULL
     /\ StoredIndex(last.req.name) # 0
     /\ scripts[StoredIndex(last.req.name)].enabled = T)
    => (~last.out.ran /\ last.out.err = "MissingTarget")

\* C5: in the RUN variant a RUN message published by a player invokes the
\* slot's body at most once in total across all connected clients, however
\* many GM clients are connected.
C5_OneInvocationPerMessage ==
    variant = "RUN" => \A i \in 1..MaxMsgs : execCount[i] <= 1

\* a run() call of a non-GM user, in the variants that request over the socket
PlayerRun ==
    variant \in {"RUN", "OP", "SSR"} /\ last.op = "run" /\ ~IsGM(last.client)

\* what such a call resolves to once the request is published
PlayerRunValue == IF variant = "SSR" THEN U ELSE T

\* the call published one message, resolved with the variant's fixed value,
\* and no listener has handled the message yet
PublishedOnceAndResolved ==
    /\ last.published = 1
    /\ last.out = Done(PlayerRunValue)
    /\ Cardinality({d \in socket : d.id = last.id})
          = Cardinality(online \ {last.client})
    /\ execCount[last.id] = 0

\* C6 as stated: every run() call of a non-GM user publishes exactly one
\* request message and resolves at once, with the same value whatever the GM
\* side does later.
C6_PlayerRunPublishesOnce == PlayerRun => PublishedOnceAndResolved

\* C6: a run() call of a non-GM user whose slot name is non-empty after
\* trimming publishes exactly one request message and resolves at once,
\* before any listener handles the message, with a value that depends on
\* nothing the GM side does.
C6_NamedPlayerRunPublishesOnce ==
    (PlayerRun /\ Trim(last.req.name) # "") => PublishedOnceAndResolved

\* a player's call for a slot the store does not hold has resolved
C6_Witness ==
    /\ PlayerRun /\ Trim(last.req.name) # ""
    /\ StoredIndex(last.req.name) = 0
    /\ last.published = 1 /\ last.out.status = "ok"

\* C7: a listener on a client whose user is not the GM, and a listener on
\* any client given a payload that is null or lacks the discriminator value,
\* executes nothing, notifies nothing and leaves the store alone.
C7_ListenerIgnores ==
    (/\ variant \in {"RUN", "OP", "SSR", "RS"}
     /\ last.op = "recv"
     /\ ~IsGM(last.client) \/ last.malformed)
    => /\ ~last.out.ran
       /\ last.out.notify = "none"
       /\ last.out.status = "ok"
       /\ ~last.wrote
       /\ execCount[last.id] <= Cardinality({u \in online : IsGM(u)})

\* a player's client received a well-formed request for a stored slot
C7_Witness ==
    /\ variant \in {"RUN", "OP", "SSR", "RS"}
    /\ last.op = "recv" /\ ~IsGM(last.client) /\ ~last.malformed
    /\ StoredIndex(last.req.name) # 0
    /\ ~last.out.ran

\* C8: in the RUN and OP variants a compile failure or a throw of the script
\* never leaves the engine: run() called by the GM and the socket handler
\* both complete without a thrown error, and the failure is shown as an
\* error notification.
C8_FailuresNeverEscape ==
    (/\ variant \in {"RUN", "OP"}
     /\ IsRunStep /\ IsGM(last.client)
     /\ last.out.err \in {"CompileError", "RuntimeError"})
    => (last.out.status = "ok" /\ last.out.notify = "error")

\* C9: no run() call and no socket delivery writes the slot collection,
\* whether the request is allowed, denied or fails; a script that throws
\* while invoked on the socket path gives the GM an error notification.
C9_RunPathsNeverWrite ==
    /\ IsRunStep => ~last.wrote
    /\ (last.op = "recv" /\ IsGM(last.client)
        /\ last.out.err = "RuntimeError")
       => (last.out.notify = "error" /\ last.out.status = "ok")

\* a script threw while invoked for a socket request of the SSR variant
C9_Witness ==
    /\ variant = "SSR"
    /\ last.op = "recv" /\ IsGM(last.client)
    /\ last.out.ran /\ last.out.err = "RuntimeError"
    /\ last.out.notify = "error"
    /\ scripts # <<>> /\ ~last.wrote

\* C10: after any sequence of add, save, delete and import actions of the
\* RUN variant's config UI from the empty collection, no two stored slots
\* have names equal after trimming and case-folding.
C10_NamesUniqueIgnoringCase ==
    variant = "RUN" =>
        \A i, j \in 1..Len(scripts) :
            i # j => ToLowerCase(Trim(scripts[i].name))
                        # ToLowerCase(Trim(scripts[j].name))

-----------------------------------------------------------------------------
(* Properties of the config UI and of list() *)

\* two names that differ at most in letter case and surrounding whitespace
SameIdentity(n1, n2) == ToLowerCase(Trim(n1)) = ToLowerCase(Trim(n2))

\* two separate records of the collection under one identity
Twins(list) ==
    \E i, j \in 1..Len(list) :
        i # j /\ SameIdentity(list[i].name, list[j].name)

\* C11: in the "op: run" variant an add or a save (rename) with a name that
\* differs from an existing slot's name only in letter case or surrounding
\* whitespace updates that slot or is rejected: a collection without two
\* records under one identity has none after the step either.
C11_AddOrRenameKeepsOneRecord ==
    [][(variant = "OP" /\ last'.ui.action \in {"add", "save"}
        /\ ~Twins(scripts)) => ~Twins(scripts')]_vars

\* the slots of a collection that a file names, by normalized key
NamedBy(file, name) ==
    \E k \in 1..Len(file.records) :
        IsString(file.records[k].name)
        /\ NormalizeName(file.records[k].name) = name

\* C12: a successful _onImport of the "SCRIPT_SLOTS_RUN" and "RUN_SLOT"
\* variants replaces the whole collection: every slot stored before the
\* import and absent from the file is gone afterwards.
C12_ImportReplacesCollection ==
    [][\A file \in FilesOf(MapValid, MapRecords) :
          (SsrImport("gm", file) \/ RsImport("gm", file))
          /\ file.kind = "records" /\ last'.ui.issued
          => \A i \in 1..Len(scripts') :
                 NamedBy(file, scripts'[i].name)]_vars

\* what the round trip is to preserve: the names and, for each name, the
\* enabled value and the code
Projection(list) ==
    {[name |-> list[i].name, enabled |-> list[i].enabled,
      code |-> list[i].code] : i \in 1..Len(list)}

\* C13: in the "op: run" and "SCRIPT_SLOTS_RUN" variants an export leaves
\* the store unchanged, and the GM importing the snapshot just exported
\* yields a stored collection with the names of the collection exported
\* and, for each name, the same enabled value and the same code.
C13_ExportImportRoundTrip ==
    [][(variant \in {"OP", "SSR"}) =>
          ((last'.ui.action = "export" => scripts' = scripts)
           /\ (last'.ui.action = "reimport" /\ IsGM(last'.client) =>
                  Projection(scripts') = Projection(Held(last'.client))))]_vars

\* a GM has re-imported the export of two slots, one of them disabled, and
\* the import was written
C13_Witness ==
    /\ variant \in {"OP", "SSR"}
    /\ last.ui.action = "reimport" /\ IsGM(last.client)
    /\ last.ui.issued /\ last.out.notify = "info"
    /\ Len(scripts) = 2
    /\ \E i \in 1..2 : scripts[i].enabled = F

\* a record of a file that has a name: a string, not empty after trimming
HasUsableName(r) ==
    r.kind = "object" /\ r.name \notin {U, NUM5} /\ Trim(r.name) # ""

\* C14: the import of the "op: run" variant, given a JSON array, stores
\* exactly the records that have a string name not empty after trimming, in
\* file order, each with its name trimmed, enabled as a boolean (false when
\* missing) and code as a string ("" when missing), replacing the whole
\* collection; given text that does not parse or is not an array it issues
\* no write and leaves the store unchanged.
C14_ImportCleansAndReplaces ==
    [][\A file \in FilesOf(ListValid, ListRecords) :
          OpImport("gm", file) =>
              LET kept == SelectSeq(file.records, HasUsableName)
              IN  IF file.kind = "records"
                  THEN /\ last'.ui.issued
                       /\ Len(scripts') = Len(kept)
                       /\ \A i \in 1..Len(kept) :
                             /\ scripts'[i].name = Trim(kept[i].name)
                             /\ scripts'[i].enabled =
                                    (IF kept[i].enabled = T THEN T ELSE F)
                             /\ scripts'[i].code =
                                    (IF kept[i].code = U THEN ""
                                     ELSE kept[i].code)
                  ELSE ~last'.ui.issued /\ scripts' = scripts]_vars

\* the GM has imported a file of two records of which one was dropped, and
\* the store holds the record kept
C14_Witness ==
    /\ variant = "OP"
    /\ last.ui.action = "import" /\ IsGM(last.client)
    /\ last.ui.issued /\ last.ui.dropped = 1 /\ last.wrote
    /\ scripts = <<Slot("b", T, C_BODY, U)>>

\* C15: in the _onImport of the "RUN_SLOT" and "SCRIPT_SLOTS_RUN" variants a
\* malformed entry of the file (null, not an object) does not keep the valid
\* entries of the same file from being imported: after the import every
\* entry that is an object under a non-empty name is stored.
C15_MalformedEntryNotFatal ==
    [][\A file \in FilesOf(MapValid, MapRecords) :
          (SsrImport("gm", file) \/ RsImport("gm", file)) =>
              \A k \in 1..Len(file.records) :
                  HasUsableName(file.records[k]) =>
                      KeyIndex(scripts',
                               NormalizeName(file.records[k].name)) # 0]_vars

\* C16: in the "RUN" and "op: run" variants an import that dropped at least
\* one record of the file is not reported with the message of an import
\* that kept every record.
C16_DroppedRecordsReported ==
    (/\ variant \in {"RUN", "OP"}
     /\ last.ui.action = "import" /\ last.ui.issued
     /\ last.ui.dropped > 0)
    => ~(last.out.notify = "info" /\ last.out.err = "Imported")

C18_RenameOntoExistingFails ==
    [][/\ \A sel \in NameStrings, name \in {"a", "b"} :
             (/\ MinSave("gm", sel, name, C_BODY, TRUE)
              /\ sel # name
              /\ KeyIndex(scripts, sel) # 0 /\ KeyIndex(scripts, name) # 0)
             => (scripts' = scripts /\ last'.out.err = "Duplicate")
       /\ \A name \in FormNames("gm") :
             (/\ RunSave("gm", name, C_BODY)
              /\ selected # NULL /\ HasNameIgnoringCase(scripts, selected)
              /\ ~SameIdentity(selected, name)
              /\ HasNameIgnoringCase(scripts, NormName(name)))
             => (scripts' = scripts /\ last'.out.err = "Duplicate")]_vars

\* C19: in every variant no handler of the config UI issues a write of the
\* collection on the client of a user who is not the GM, and openConfig
\* opens no editor there.
C19_OnlyGMWritesOrOpens ==
    (last.op = "ui" /\ ~IsGM(last.client))
    => (~last.ui.issued /\ ~last.ui.opened)

\* the place of a name of the model in case-insensitive lexicographic
\* order: names are compared after case folding, "a" and "A" tie
FoldedRank(name) ==
    CASE ToLowerCase(name) = ""         -> 0
      [] ToLowerCase(name) = " "        -> 1
      [] ToLowerCase(name) = " a"       -> 2
      [] ToLowerCase(name) = "5"        -> 3
      [] ToLowerCase(name) = "a"        -> 4
      [] ToLowerCase(name) = "b"        -> 5
      [] OTHER                          -> 6

\* C20: in every variant list() returns the slot names in case-insensitive
\* lexicographic order, whatever the order in which the slots were stored.
C20_ListInCaseInsensitiveOrder ==
    last.ui.action = "list" =>
        \A i, j \in 1..Len(last.ui.listed) :
            i < j => FoldedRank(last.ui.listed[i])
                        <= FoldedRank(last.ui.listed[j])

-----------------------------------------------------------------------------
(* Properties of the authorization gate *)

\* the step observed last handled a request on a GM client: a run() call of
\* the GM, or a delivery the listener accepted
HandledOnGM ==
    /\ IsRunStep /\ IsGM(last.client)
    /\ last.op = "recv" => ~last.malformed

\* the request observed last names a stored slot that is not disabled
NamesEnabledSlot ==
    /\ StoredIndex(last.req.name) # 0
    /\ scripts[StoredIndex(last.req.name)].enabled # F

\* C21: in the RUN and OP variants every authorization decision follows the
\* values requireActorOwner and requireTokenOnScene have in the store when
\* the request is handled: with the owner rule off nothing is denied as not
\* owned, with the token rule off nothing is denied as not present, with
\* both off no gate denial occurs, and with the owner rule on the request of
\* a known user for a known actor they do not own is denied as not owned.
C21_DecisionUsesStoredPolicy ==
    (variant \in {"RUN", "OP"} /\ HandledOnGM) =>
        /\ last.out.err = "NotOwner" => requireOwner
        /\ last.out.err = "NotPresent" => requireToken
        /\ last.out.err \in GateDenials => (requireOwner \/ requireToken)
        /\ (/\ requireOwner /\ NamesEnabledSlot
            /\ ActorsGet(last.req.actorId) # NULL
            /\ UsersGet(last.req.userId) # NULL
            /\ ~TestUserPermission(last.req.actorId, last.req.userId))
           => (last.out.err = "NotOwner" /\ ~last.out.ran)

\* after the GM switched the owner rule off, the request of p1 for the actor
\* a2, which p1 does not own, is executed
C21_Witness ==
    /\ variant = "OP" /\ last.op = "recv" /\ HandledOnGM
    /\ ~requireOwner
    /\ last.req.userId = "p1" /\ last.req.actorId = "a2"
    /\ last.out.ran

\* a denial for an ownership reason: the target is missing or the requester
\* does not own it
OwnershipReason(e) == e \in {"MissingTarget", "NotOwner"}

\* C22: in the OP variant, for the request handled and the value
\* requireActorOwner has, validateRequest denies for an ownership reason
\* (missing target, requester not owner) under requireTokenOnScene = true
\* exactly when it does under requireTokenOnScene = false.
C22_OwnershipDenialIgnoresTokenRule ==
    (variant = "OP" /\ HandledOnGM /\ NamesEnabledSlot) =>
        \A t \in BOOLEAN :
            OwnershipReason(ValidateRequestUnder(requireOwner, t, last.req))
                = OwnershipReason(last.out.err)

\* this step delivers the message d, and the script body runs
ExecutesFor(d) ==
    /\ d \in socket /\ d \notin socket'
    /\ last'.op = "recv" /\ last'.id = d.id /\ last'.client = d.to
    /\ last'.out.ran

\* C23: in the SSR variant a socket message published by a client whose user
\* is not a GM never makes a slot stored with playersCanRun = false execute
\* and, while requireActorOwner is true, never makes a slot execute for an
\* actor the publishing user does not own, whatever the fields of the message
\* (userId included) carry.
C23_PlayerMessageCannotBypass ==
    [][\A d \in socket :
        (variant = "SSR" /\ ~IsGM(d.from) /\ ExecutesFor(d)) =>
            LET i == KeyIndex(scripts, NormalizeName(d.payload.name))
                actor == GetRequesterActor(d.payload.actorId,
                                           UsersGet(d.payload.userId))
            IN  /\ scripts[i].playersCanRun # F
                /\ requireOwner => TestUserPermission(actor, d.from)]_vars

\* C24: in the RS variant, while requireActorOwner is true, runSlotAsGM
\* executes a slot for a socket request only if requestedBy of the payload
\* resolves to an existing user who holds OWNER on the actor the payload
\* resolves to; a request whose requestedBy is missing or unknown is never
\* executed.
C24_SocketRunNeedsOwningRequester ==
    (variant = "RS" /\ last.op = "recv" /\ requireOwner /\ last.out.ran) =>
        /\ UsersGet(last.req.userId) # NULL
        /\ ResolveActor(last.req.actorId) # NULL
        /\ TestUserPermission(ResolveActor(last.req.actorId),
                              UsersGet(last.req.userId))

\* how an engine reports that it refused a request
Denials == GateDenials \cup {"NotFound", "SlotDisabled", "NotPermitted"}

\* how an engine reports that compiling or invoking the script failed
ScriptFailures ==
    {"CompileError", "InitError", "MissingEntryPoint", "RuntimeError",
     "ReferenceError", "EmptyCode"}

\* C25: in the OP and SSR variants a request that names an absent slot, or
\* that an authorization check denies, never reaches compilation or
\* invocation: the body does not run and the engine reports the denial, never
\* a compile or script failure, whatever the code of the slot is.
C25_DeniedNeverCompiled ==
    (variant \in {"OP", "SSR"} /\ HandledOnGM) =>
        LET i == StoredIndex(last.req.name)
            requester == UsersGet(last.req.userId)
        IN  /\ i = 0 => (~last.out.ran /\ last.out.err \notin ScriptFailures)
            /\ last.out.err \in Denials => ~last.out.ran
            /\ (/\ variant = "OP" /\ i # 0 /\ Truthy(scripts[i].enabled)
                /\ ValidateRequest(last.req) # "none")
               => (~last.out.ran /\ last.out.err = ValidateRequest(last.req))
            /\ (/\ i # 0
                /\ \/ ~Truthy(scripts[i].enabled)
                   \/ variant = "SSR" /\ requester = NULL
                   \/ /\ variant = "SSR" /\ requester # NULL
                      /\ ~IsGM(requester) /\ ~Truthy(scripts[i].playersCanRun))
               => (~last.out.ran /\ last.out.err \in Denials)

\* a slot whose code does not compile is requested by a player for an actor
\* they do not own: the GM's engine answers with the ownership denial
C25_Witness ==
    /\ variant = "OP" /\ last.op = "recv" /\ HandledOnGM
    /\ StoredIndex(last.req.name) # 0
    /\ scripts[StoredIndex(last.req.name)].code = C_SYNTAX
    /\ last.out.err = "NotOwner" /\ ~last.out.ran

\* the request observed last was handled by the SSR engine on a GM client
\* for a stored slot and names a known requester who is not a GM
PlayerRequestSSR ==
    /\ variant = "SSR" /\ HandledOnGM
    /\ StoredIndex(last.req.name) # 0
    /\ UsersGet(last.req.userId) # NULL /\ ~IsGM(UsersGet(last.req.userId))

\* C26: in the SSR variant, when several deny conditions hold for the request
\* of a non-GM requester, the reason reported is the first that holds in the
\* order: slot disabled, players not permitted, requester not owner of the
\* target, token not present.
C26_FirstDenialReported ==
    PlayerRequestSSR =>
        LET slot == scripts[StoredIndex(last.req.name)]
            requester == UsersGet(last.req.userId)
            actor == GetRequesterActor(last.req.actorId, requester)
            disabled == ~Truthy(slot.enabled)
            notPermitted == ~Truthy(slot.playersCanRun)
            notOwner == /\ actor # NULL /\ requireOwner
                        /\ ~TestUserPermission(actor, requester)
            notPresent == actor # NULL /\ requireToken /\ ~HasTokenOnScene(actor)
        IN  /\ disabled => last.out.err = "SlotDisabled"
            /\ (~disabled /\ notPermitted) => last.out.err = "NotPermitted"
            /\ (~disabled /\ ~notPermitted /\ notOwner)
               => last.out.err = "NotOwner"
            /\ (~disabled /\ ~notPermitted /\ ~notOwner /\ notPresent)
               => last.out.err = "NotPresent"
            /\ (disabled \/ notPermitted \/ notOwner \/ notPresent)
               => ~last.out.ran

\* p1 asks for a slot players may run, for the actor a2 they do not own and
\* which has no token on the scene, with both rules on: not owner is reported
C26_Witness ==
    /\ PlayerRequestSSR
    /\ requireOwner /\ requireToken
    /\ last.req.actorId = "a2"
    /\ Truthy(scripts[StoredIndex(last.req.name)].enabled)
    /\ Truthy(scripts[StoredIndex(last.req.name)].playersCanRun)
    /\ last.out.err = "NotOwner"

\* C27: in the SSR variant the request of a non-GM requester for a stored,
\* enabled slot is denied as not permitted exactly when the record of the
\* slot defines playersCanRun and its value is false; a record that does not
\* define playersCanRun is not denied for that reason.
C27_DeniedOnlyWhenFlagIsFalse ==
    (/\ PlayerRequestSSR
     /\ Truthy(scripts[StoredIndex(last.req.name)].enabled))
    => (last.out.err = "NotPermitted"
           <=> scripts[StoredIndex(last.req.name)].playersCanRun = F)

\* C28: in the RS variant, while requireTokenOnScene is true, the request of
\* a non-GM requester is executed only if its target actor resolves and has a
\* token on the active scene; a request with no actorId, or with one that
\* does not resolve, is denied and the script is not invoked.
C28_TokenRuleNeedsResolvedActor ==
    (/\ variant = "RS" /\ HandledOnGM /\ requireToken
     /\ ~IsGM(last.req.userId)
     /\ last.out.ran)
    => /\ ResolveActor(last.req.actorId) # NULL
       /\ HasTokenOnScene(ResolveActor(last.req.actorId))

\* SSR variant: ctx.actor of the context executeEntryAsGM builds for the
\* request observed last
CtxActorSSR ==
    GetRequesterActor(last.req.actorId, UsersGet(last.req.userId))

\* C29: in the SSR variant, when the arguments of a request carry no actorId,
\* the body runs with a context whose target actor is null: the target is
\* taken from no other source.
C29_NoActorIdMeansNullTarget ==
    (/\ variant = "SSR" /\ HandledOnGM
     /\ last.req.actorId = NoId
     /\ last.out.ran)
    => CtxActorSSR = NULL

\* the argument bag of the run(name, args) call behind the request observed
\* last: the actorId, when one is given, and one more key, note
ArgsSupplied ==
    IF last.req.actorId = NoId THEN [note |-> "n"]
    ELSE [actorId |-> last.req.actorId, note |-> "n"]

\* every key of args is readable from ctx with the value supplied, as
\* ctx.args or as a key of ctx itself
ArgsReadable(ctx, args) ==
    IF "args" \in DOMAIN ctx THEN ctx["args"] = args
    ELSE \A k \in DOMAIN args : k \in DOMAIN ctx /\ ctx[k] = args[k]

\* C30: in the RS variant the context handed to the script holds the
\* argument bag as the caller supplied it to run(name, args), on the local GM
\* path and on the socket path: every key the caller passed is readable by
\* the script.
C30_ContextCarriesArgs ==
    (variant = "RS" /\ HandledOnGM /\ last.out.ran)
    => ArgsReadable(BuildCtx(last.req.actorId, last.req.userId), ArgsSupplied)

-----------------------------------------------------------------------------
(* Properties of the context, the compilers and the editor dialogs *)

\* the tokenId a requester can put into the argument bag: none, a token of
\* the scene, or an id that names no token
TokenIds == {NoTokenId, "t1", "t9", "tz"}

\* C31: in the OP variant, in the context buildCtx makes for a request that
\* is executed, whenever actor and token are both non-null the token is a
\* token of that actor, whatever tokenId the argument bag carries.
C31_TokenBelongsToActor ==
    (variant = "OP" /\ HandledOnGM /\ last.out.ran) =>
        \A tokenId \in TokenIds :
            LET ctx == BuildCtx_OP(last.req.name, last.req.actorId, tokenId,
                                   last.req.userId)
            IN  (ctx.actor # NULL /\ ctx.token # NULL)
                => TokenActor(ctx.token) = ctx.actor

\* the engine of the variant ran the slot holding this text for the request
\* observed last
RanSlotWith(code) ==
    /\ HandledOnGM
    /\ StoredIndex(last.req.name) # 0
    /\ scripts[StoredIndex(last.req.name)].code = code
    /\ last.out.err \notin Denials

\* C32: in executeSlotAsGM of the RUN variant a slot whose code is the full
\* declaration function run(ctx) { return 42; } and a slot whose code is the
\* bare body return 42; both compile and both yield 42.
C32_BothConventionsYield42 ==
    (/\ variant = "RUN" /\ last.op = "run"
     /\ RanSlotWith(C_RUN42) \/ RanSlotWith(C_BODY))
    => (last.out.status = "ok" /\ last.out.value = "42")

\* texts that are bare bodies and mention function run( in a comment or in
\* a nested block only
MentionsRunOnly == {C_COMMENT, C_NESTED}

\* C33: in compileRunner of the OP variant a text is taken as the full-module
\* form only when it declares run at its top level, so a bare body that
\* mentions function run( in a comment or a nested block is compiled and run
\* as a bare body; and a valid text taken as the full-module form that binds
\* no callable run fails with the missing-entry-point error and no other.
C33_EntryPointClassification ==
    (variant = "OP" /\ last.op = "run" /\ IsGM(last.client)) =>
        \A code \in AuthoredCodes :
            RanSlotWith(code) =>
                /\ code \in MentionsRunOnly
                   => (last.out.status = "ok"
                       /\ last.out.value = EvalBody(code).value)
                /\ (MatchesRunDecl(code) /\ ParsesAsBody(code)
                    /\ ~DeclaresRun(code))
                   => last.out.err = "MissingEntryPoint"

\* the delivery of message id to client to is still in flight
InFlight(to, id) == \E d \in socket : d.to = to /\ d.id = id

\* C34: in the RUN variant, while an invocation on a GM client never
\* completes, a RUN message that arrives afterwards is still handled by the
\* listener (authorized and, when allowed, invoked), and the operator's add,
\* save and delete still complete: every later request reaches its outcome.
C34_HangBlocksNothing ==
    /\ \A to \in {"gm", "gm2"}, id \in 1..MaxMsgs :
          (to \in hung /\ InFlight(to, id)) ~> ~InFlight(to, id)
    /\ [][(/\ last'.op = "recv" /\ last'.client \in hung
           /\ last'.req.name = "b"
           /\ KeyIndex(scripts, "b") # 0
           /\ scripts[KeyIndex(scripts, "b")].code = C_BODY)
          => (last'.out.ran /\ last'.out.status = "ok")]_vars
    /\ [][(hung # {} /\ last'.op = "ui" /\ last'.ui.issued)
          => (last'.out.notify # "error" /\ last'.out.status = "ok")]_vars

\* on the GM client an invocation awaits forever, and the request of p1 that
\* arrived afterwards has run to its end there
C34_Witness ==
    /\ "gm" \in hung
    /\ last.op = "recv" /\ last.client = "gm"
    /\ last.req.userId = "p1"
    /\ last.out.ran /\ last.out.status = "ok"

\* the slot is in the collection with the code and the enabled flag given
KeepsSlot(list, slot) ==
    \E j \in 1..Len(list) :
        /\ list[j].name = slot.name
        /\ list[j].code = slot.code
        /\ list[j].enabled = slot.enabled

\* C37: in every variant the add action leaves the code and the enabled
\* flag of every slot already stored as they were: it either creates one
\* slot under a name not stored before or leaves the store unchanged.
C37_AddKeepsStoredSlots ==
    [][(last'.op = "ui" /\ last'.ui.action = "add")
       => (/\ \A i \in 1..Len(scripts) : KeepsSlot(scripts', scripts[i])
           /\ \/ scripts' = scripts
              \/ /\ Len(scripts') = Len(scripts) + 1
                 /\ Keys(scripts') \ Keys(scripts) # {})]_vars

\* C38: in the "RUN" variant a successful save with the name field changed
\* from the selected slot's name to a name no slot has leaves the new name
\* stored with the edited code, the old name gone and the number of slots
\* as it was.
C38_SaveRenamesSelected ==
    [][\A c \in Operators, name \in UINames, code \in UICodes :
          (/\ RunSave(c, name, code)
           /\ last'.ui.issued /\ last'.out.err = "Saved"
           /\ selected # NULL /\ HasNameIgnoringCase(scripts, selected)
           /\ ~HasNameIgnoringCase(scripts, NormName(name)))
          => (/\ KeyIndex(scripts', NormName(name)) # 0
              /\ scripts'[KeyIndex(scripts', NormName(name))].code = code
              /\ ~HasNameIgnoringCase(scripts', selected)
              /\ Len(scripts') = Len(scripts))]_vars

-----------------------------------------------------------------------------
(* Properties of dialogs left open and of concurrent writes *)

\* the step is the Save of an edit dialog
DialogSaved == last'.op = "ui" /\ last'.ui.action = "editSave"

\* C35: in the "RUN_SLOT" variant the Save of an edit dialog creates no
\* slot: a slot deleted after the dialog was opened stays out of the store,
\* and no slot is enabled after the save that was not enabled before it.
C35_SaveCreatesNoSlot ==
    [][(variant = "RS" /\ DialogSaved)
       => (/\ Keys(scripts') \subseteq Keys(scripts)
           /\ \A j \in 1..Len(scripts') :
                 scripts'[j].enabled = T
                 => \E i \in 1..Len(scripts) :
                       /\ scripts[i].name = scripts'[j].name
                       /\ scripts[i].enabled = T)]_vars

\* C36: in the "SCRIPT_SLOTS_RUN" variant the Save of an edit dialog
\* changes the code of the edited slot and nothing else: the flags of that
\* slot and every other slot are as the store had them right before the
\* save, whatever was toggled, added or deleted while the dialog was open.
C36_SaveChangesOnlyTheCode ==
    [][(variant = "SSR" /\ DialogSaved)
       => \A d \in DialogOf(last'.client) :
             /\ Len(scripts') = Len(scripts)
             /\ \A i \in 1..Len(scripts) :
                   /\ scripts'[i].name = scripts[i].name
                   /\ scripts'[i].enabled = scripts[i].enabled
                   /\ scripts'[i].playersCanRun = scripts[i].playersCanRun
                   /\ scripts[i].name # d.name
                      => scripts'[i].code = scripts[i].code]_vars

\* C39: when the add of one GM completes right after the add of another GM
\* has, both without an error, the store holds the slot of each: the one
\* just written and every slot stored before, whether the handler of this
\* add read the collection before or after the other add wrote it.
C39_ConcurrentAddsBothStored ==
    [][\A w \in pending :
          (/\ w.kind = "write" /\ w \notin pending'
           /\ IsGM(w.client)
           /\ last.op = "ui" /\ last.ui.action = "add" /\ last.ui.issued
           /\ IsGM(last.client) /\ last.client # w.client
           /\ last.out.status = "ok" /\ last'.out.status = "ok"
           /\ last.out.notify # "error" /\ last'.out.notify # "error")
          => (Keys(scripts) \cup {w.name}) \subseteq Keys(scripts')]_vars
====
